---- MODULE Spec2Model ----
(***************************************************************************)
(* Coverage platform: ingestion worker (coverage-consumer/main.py), the    *)
(* ingestion transaction (manager/manager.py, process_coverage_report) and *)
(* the relational store it writes (models.py).                             *)
(*                                                                         *)
(* Text is modelled as a sequence of one-character strings, so that the    *)
(* trace parser and the header parser work on characters as the code does. *)
(***************************************************************************)
EXTENDS Integers, Sequences, FiniteSets, Bags, TLC

(***************************************************************************)
(* Text helpers (Python str methods used by the code)                      *)
(***************************************************************************)
Whitespace == {" ", "\n", "\t", "\r"}

Digits == {"0", "1", "2", "3", "4", "5", "6", "7", "8", "9"}

DigitVal(c) ==
    CASE c = "0" -> 0 [] c = "1" -> 1 [] c = "2" -> 2 [] c = "3" -> 3
      [] c = "4" -> 4 [] c = "5" -> 5 [] c = "6" -> 6 [] c = "7" -> 7
      [] c = "8" -> 8 [] c = "9" -> 9

RECURSIVE SplitFrom(_, _, _, _)
SplitFrom(s, seps, i, cur) ==
    IF i > Len(s) THEN <<cur>>
    ELSE IF s[i] \in seps THEN <<cur>> \o SplitFrom(s, seps, i + 1, <<>>)
    ELSE SplitFrom(s, seps, i + 1, Append(cur, s[i]))

\* str.split(sep): every piece, empty ones included (the pieces are cut at
\* the positions of sep, so that a long text needs no deep recursion)
StrSplit(s, sep) ==
    LET at == {i \in 1..Len(s) : s[i] = sep}
        n == Cardinality(at)
        cut(k) == IF k = 0 THEN 0
                  ELSE IF k = n + 1 THEN Len(s) + 1
                  ELSE CHOOSE i \in at : Cardinality({j \in at : j <= i}) = k
    IN  [k \in 1..(n + 1) |-> SubSeq(s, cut(k - 1) + 1, cut(k) - 1)]

\* str.split(): split on runs of whitespace, no empty piece
StrSplitWS(s) == SelectSeq(SplitFrom(s, Whitespace, 1, <<>>), LAMBDA p : p # <<>>)

\* str.strip()
StrStrip(s) ==
    LET keep == {i \in 1..Len(s) : s[i] \notin Whitespace}
    IN  IF keep = {} THEN <<>>
        ELSE LET lo == CHOOSE i \in keep : \A j \in keep : i <= j
                 hi == CHOOSE i \in keep : \A j \in keep : i >= j
             IN  SubSeq(s, lo, hi)

\* str.startswith(prefix)
StrStartsWith(s, prefix) ==
    /\ Len(s) >= Len(prefix)
    /\ SubSeq(s, 1, Len(prefix)) = prefix

\* str.rfind(c), 1-based; 0 stands for Python's -1
StrRFind(s, c) ==
    LET hits == {i \in 1..Len(s) : s[i] = c}
    IN  IF hits = {} THEN 0 ELSE CHOOSE i \in hits : \A j \in hits : i >= j

\* whether int(s) succeeds: surrounding whitespace is ignored, then an
\* optional sign followed by digits
IsIntText(s) ==
    LET t == StrStrip(s)
        body == IF t # <<>> /\ t[1] \in {"+", "-"} THEN Tail(t) ELSE t
    IN  /\ body # <<>>
        /\ \A i \in 1..Len(body) : body[i] \in Digits

RECURSIVE DigitsValue(_)
DigitsValue(s) ==
    IF s = <<>> THEN 0
    ELSE 10 * DigitsValue(SubSeq(s, 1, Len(s) - 1)) + DigitVal(s[Len(s)])

\* int(s) for a text that IsIntText accepts
IntOfText(s) ==
    LET t == StrStrip(s)
    IN  IF t[1] = "-" THEN 0 - DigitsValue(Tail(t))
        ELSE IF t[1] = "+" THEN DigitsValue(Tail(t))
        ELSE DigitsValue(t)

\* str.split(sep) for a separator of several characters
RECURSIVE SplitOnFrom(_, _, _, _)
SplitOnFrom(s, sep, i, cur) ==
    IF i > Len(s) THEN <<cur>>
    ELSE IF i + Len(sep) - 1 <= Len(s) /\ SubSeq(s, i, i + Len(sep) - 1) = sep
    THEN <<cur>> \o SplitOnFrom(s, sep, i + Len(sep), <<>>)
    ELSE SplitOnFrom(s, sep, i + 1, Append(cur, s[i]))

StrSplitOn(s, sep) == SplitOnFrom(s, sep, 1, <<>>)

\* str.lstrip(chars)
StrLStrip(s, chars) ==
    LET keep == {i \in 1..Len(s) : s[i] \notin chars}
    IN  IF keep = {} THEN <<>>
        ELSE SubSeq(s, CHOOSE i \in keep : \A j \in keep : i <= j, Len(s))

\* "\n".join(lines)
RECURSIVE JoinLines(_)
JoinLines(lines) ==
    IF lines = <<>> THEN <<>>
    ELSE IF Len(lines) = 1 THEN lines[1]
    ELSE lines[1] \o <<"\n">> \o JoinLines(Tail(lines))

(***************************************************************************)
(* parse_goc_coverage: text -> file paths with their blocks, in the order  *)
(* in which the paths first occur (the insertion order of the dict)        *)
(***************************************************************************)
ModePrefix == <<"m", "o", "d", "e", ":">>

\* one line of the trace: [ok |-> FALSE] when the line is skipped
ParseLine(rawline) ==
    LET line == StrStrip(rawline)
        parts == StrSplitWS(line)
        skip == [ok |-> FALSE]
    IN  IF line = <<>> \/ StrStartsWith(line, ModePrefix) THEN skip
        ELSE IF Len(parts) < 3 THEN skip
        ELSE
          LET fpr == parts[1]
              last_colon_idx == StrRFind(fpr, ":")
          IN  IF last_colon_idx = 0 THEN skip
              ELSE
                LET file_path == SubSeq(fpr, 1, last_colon_idx - 1)
                    range_str == SubSeq(fpr, last_colon_idx + 1, Len(fpr))
                    range_parts == StrSplit(range_str, ",")
                IN  IF Len(range_parts) # 2 THEN skip
                    ELSE
                      LET start_parts == StrSplit(range_parts[1], ".")
                          end_parts == StrSplit(range_parts[2], ".")
                      IN  IF Len(start_parts) # 2 \/ Len(end_parts) # 2 THEN skip
                          ELSE IF \E t \in {start_parts[1], start_parts[2],
                                            end_parts[1], end_parts[2],
                                            parts[2], parts[3]} : ~IsIntText(t)
                          THEN skip
                          ELSE [ok |-> TRUE,
                                file_path |-> file_path,
                                range_item |->
                                  [start_line |-> IntOfText(start_parts[1]),
                                   start_col |-> IntOfText(start_parts[2]),
                                   end_line |-> IntOfText(end_parts[1]),
                                   end_col |-> IntOfText(end_parts[2]),
                                   statements |-> IntOfText(parts[2]),
                                   hit |-> IntOfText(parts[3])]]

\* result[file_path].append(range_item), keeping the order of first occurrence
AddRange(result, file_path, range_item) ==
    IF \E i \in 1..Len(result) : result[i].file_path = file_path
    THEN [i \in 1..Len(result) |->
            IF result[i].file_path = file_path
            THEN [result[i] EXCEPT !.ranges = Append(@, range_item)]
            ELSE result[i]]
    ELSE Append(result, [file_path |-> file_path, ranges |-> <<range_item>>])

RECURSIVE ParseLines(_, _, _)
ParseLines(lines, i, result) ==
    IF i > Len(lines) THEN result
    ELSE LET p == ParseLine(lines[i])
         IN  ParseLines(lines, i + 1,
                        IF p.ok THEN AddRange(result, p.file_path, p.range_item)
                        ELSE result)

parse_goc_coverage(raw) == ParseLines(StrSplit(raw, "\n"), 1, <<>>)

\* parse_pyca_coverage reuses the goc parser
parse_pyca_coverage(raw) == parse_goc_coverage(raw)

(***************************************************************************)
(* Bounds of the model                                                     *)
(***************************************************************************)
\* messages published by CI jobs in one behaviour
MaxMsgs == 2

\* injected environment faults (store error, broker publish error, crash)
MaxFaults == 1

(***************************************************************************)
(* Program constants                                                       *)
(***************************************************************************)
MAX_RETRY_COUNT == 10

RETRY_HEADER_KEY == "x-retry-count"

None == "None"

(***************************************************************************)
(* Python dict helpers                                                     *)
(***************************************************************************)
EmptyDict == [k \in {} |-> None]

DictGet(d, k, default) == IF k \in DOMAIN d THEN d[k] ELSE default

DictSet(d, k, v) == [x \in (DOMAIN d) \cup {k} |-> IF x = k THEN v ELSE d[x]]

(***************************************************************************)
(* Message bodies a publisher can put on the exchange.  A body is a byte   *)
(* string: utf8 says whether it decodes as UTF-8, json whether the text is *)
(* valid JSON, jtype the type of the top-level JSON value, data the object.*)
(***************************************************************************)
Trace1 == <<"m", "o", "d", "e", ":", " ", "s", "e", "t", "\n", "f", ":", "1", ".", "1", ",", "2", ".", "2", " ", "3", " ", "1", "\n", "f", ":", "3", ".", "1", ",", "4", ".", "2", " ", "2", " ", "0">>

Trace2 == <<"f", ":", "1", ".", "1", ",", "2", ".", "2", " ", "3", " ", "1">>

Trace3 == <<"g", ":", "1", ".", "0", ",", "1", ".", "9", " ", "1", " ", "2", "\n", "g", ":", "1", ".", "0", ",", "1", ".", "9", " ", "1", " ", "2", "\n", "b", "a", "d", "\n", "f", ":", "x", ".", "1", ",", "2", ".", "2", " ", "1", " ", "1", "\n", "f", ":", "5", ".", "1", ",", "6", ".", "2", " ", "1", " ", "0">>

RepoUrl == "https://host/o/r.git"

\* the same repository in scp-like syntax
SshUrl == "git@host:o/r.git"

\* the same repository after it was renamed: the provider keeps its id
MovedUrl == "https://host/n/r.git/"

\* the characters of a URL
UrlText(u) ==
    CASE u = RepoUrl -> <<"h", "t", "t", "p", "s", ":", "/", "/", "h", "o", "s", "t", "/", "o", "/", "r", ".", "g", "i", "t">>
      [] u = SshUrl -> <<"g", "i", "t", "@", "h", "o", "s", "t", ":", "o", "/", "r", ".", "g", "i", "t">>
      [] u = MovedUrl -> <<"h", "t", "t", "p", "s", ":", "/", "/", "h", "o", "s", "t", "/", "n", "/", "r", ".", "g", "i", "t", "/">>

\* a JSON value that is not a string (a number) where a text is expected;
\* texts are sequences of single characters, so no text equals it
NotAString == <<"#number">>

BodyIds == {"badutf8", "badjson", "array", "emptyid", "unknown", "unsup",
            "ok1", "ok2", "ok3"}

BodyOf(b) ==
    CASE b = "badutf8" -> [utf8 |-> FALSE]
      [] b = "badjson" -> [utf8 |-> TRUE, json |-> FALSE]
      [] b = "array" -> [utf8 |-> TRUE, json |-> TRUE, jtype |-> "array"]
      [] b = "emptyid" ->
           [utf8 |-> TRUE, json |-> TRUE, jtype |-> "object",
            data |-> [repo |-> RepoUrl, repo_id |-> "", branch |-> "main",
                      commit |-> "abc",
                      coverage |-> [format |-> "goc", raw |-> Trace2]]]
      [] b = "unknown" ->
           [utf8 |-> TRUE, json |-> TRUE, jtype |-> "object",
            data |-> [repo |-> RepoUrl, repo_id |-> "unknown", branch |-> "main",
                      commit |-> "abc",
                      coverage |-> [format |-> "goc", raw |-> Trace2]]]
      [] b = "unsup" ->
           [utf8 |-> TRUE, json |-> TRUE, jtype |-> "object",
            data |-> [repo |-> RepoUrl, repo_id |-> "42", branch |-> "main",
                      commit |-> "bad",
                      ci |-> [provider |-> "gitlab", pipeline_id |-> "9"],
                      coverage |-> [format |-> "lcov", raw |-> Trace2]]]
      [] b = "ok1" ->
           [utf8 |-> TRUE, json |-> TRUE, jtype |-> "object",
            data |-> [repo |-> RepoUrl, repo_id |-> "42", branch |-> "main",
                      commit |-> "abc",
                      ci |-> [provider |-> "gitlab", pipeline_id |-> "1",
                              job_id |-> "7"],
                      coverage |-> [format |-> "goc", raw |-> Trace1],
                      timestamp |-> 1]]
      [] b = "ok2" ->
           [utf8 |-> TRUE, json |-> TRUE, jtype |-> "object",
            data |-> [repo |-> RepoUrl, repo_id |-> "42", branch |-> "main",
                      commit |-> "def",
                      ci |-> [provider |-> "github"],
                      coverage |-> [format |-> "pyca", raw |-> Trace2]]]
      [] b = "ok3" ->
           [utf8 |-> TRUE, json |-> TRUE, jtype |-> "object",
            data |-> [repo |-> RepoUrl, repo_id |-> "42", branch |-> "main",
                      commit |-> "abc",
                      coverage |-> [raw |-> Trace3]]]
      [] b = "ok4" ->
           [utf8 |-> TRUE, json |-> TRUE, jtype |-> "object",
            data |-> [repo |-> RepoUrl, repo_id |-> "42", branch |-> "dev",
                      commit |-> "abc",
                      coverage |-> [format |-> "goc", raw |-> Trace2]]]
      [] b = "ok5" ->
           [utf8 |-> TRUE, json |-> TRUE, jtype |-> "object",
            data |-> [repo |-> SshUrl, repo_id |-> "42", branch |-> "main",
                      commit |-> "abc",
                      coverage |-> [format |-> "goc", raw |-> Trace2]]]
      [] b = "ok6" ->
           [utf8 |-> TRUE, json |-> TRUE, jtype |-> "object",
            data |-> [repo |-> MovedUrl, repo_id |-> "42", branch |-> "main",
                      commit |-> "abc",
                      coverage |-> [format |-> "goc", raw |-> Trace2]]]
      [] b = "badraw" ->
           [utf8 |-> TRUE, json |-> TRUE, jtype |-> "object",
            data |-> [repo |-> RepoUrl, repo_id |-> "42", branch |-> "main",
                      commit |-> "abc",
                      coverage |-> [format |-> "goc", raw |-> NotAString]]]

\* a header value: a Python int (n) or a Python str (s)
IntVal(n) == [t |-> "int", n |-> n, s |-> <<>>]

StrVal(s) == [t |-> "str", n |-> 0, s |-> s]

\* message properties.headers as published: <<>> stands for None, <<d>> for
\* the dict d
HeaderChoices ==
    {<<>>,
     <<[k \in {"x-retry-count"} |-> IntVal(9)]>>,
     <<[k \in {"x-retry-count", "trace"} |->
          IF k = "trace" THEN StrVal(<<"a">>) ELSE StrVal(<<"1", "0">>)]>>,
     <<[k \in {"x-retry-count"} |-> StrVal(<<"x">>)]>>}

Workers == {"w1", "w2"}

(***************************************************************************)
(* State                                                                   *)
(***************************************************************************)
VARIABLES
    queue,          \* coverage_queue: deliveries waiting, in FIFO order
    worker,         \* per worker process: position in the callback, delivery, transaction
    config,         \* committed coverage_config rows
    reports,        \* committed coverage_reports rows
    files,          \* committed coverage_files rows
    ranges,         \* committed coverage_ranges rows (a bag: the row id is left out)
    worktrees,      \* materialized (repo, commit) trees on disk
    nextReportId,   \* AUTO_INCREMENT of coverage_reports
    nextFileId,     \* AUTO_INCREMENT of coverage_files
    clock,          \* time.time() in ms
    faults,         \* environment faults injected so far
    hist,           \* per published message: what the consumer did with it and its copies
    caller,         \* per concurrent clone_or_update_repo(U, C) call: its position
    lockHolder,     \* who holds the flock on worktrees/.lock_<C> (0: nobody)
    tree,           \* the directory worktrees/<C> on disk
    input,          \* the argument of a function of diff_coverage.py
    output,         \* what the function returned, once it has
    api             \* the request the API process is serving, and its response

vars == <<queue, worker, config, reports, files, ranges, worktrees,
          nextReportId, nextFileId, clock, faults, hist, caller, lockHolder, tree,
          input, output, api>>

pureVars == <<input, output>>

apiVars == <<api>>

treeVars == <<caller, lockHolder, tree>>

mainVars == <<queue, worker, config, reports, files, ranges, worktrees,
              nextReportId, nextFileId, clock, faults, hist>>

store == <<reports, files, ranges>>

Idle == [pc |-> "idle", d |-> [lin |-> 0], tx |-> [kind |-> "none"]]

SupportedFormats == {"goc", "pyca", "pca", "jacoco"}

ConfigRows ==
    {[repo_id |-> "42", repo_name |-> "r", repo_url |-> RepoUrl,
      base_branch |-> "develop"]}

(***************************************************************************)
(* coverage-consumer/main.py                                               *)
(***************************************************************************)
get_retry_count(headers) ==
    IF headers = EmptyDict THEN 0
    ELSE IF RETRY_HEADER_KEY \in DOMAIN headers
         THEN LET retry_count_val == headers[RETRY_HEADER_KEY]
              IN  IF retry_count_val.t = "int" THEN retry_count_val.n
                  ELSE IF retry_count_val.t = "str" /\ IsIntText(retry_count_val.s)
                       THEN IntOfText(retry_count_val.s)
                       ELSE 0
         ELSE 0

\* headers = properties.headers or {}
HeadersOf(d) == IF d.headers = <<>> THEN EmptyDict ELSE d.headers[1]

\* json.loads(body.decode('utf-8')): the exception raised, or the value
Decode(body) ==
    IF ~body.utf8 THEN [err |-> "UnicodeDecodeError"]
    ELSE IF ~body.json THEN [err |-> "JSONDecodeError"]
    ELSE [err |-> "none", jtype |-> body.jtype]

CoverageReportMessage(data) ==
    [repo |-> DictGet(data, "repo", ""),
     repo_id |-> DictGet(data, "repo_id", ""),
     branch |-> DictGet(data, "branch", ""),
     commit |-> DictGet(data, "commit", ""),
     ci |-> DictGet(data, "ci", EmptyDict),
     coverage |-> DictGet(data, "coverage", EmptyDict),
     timestamp |-> DictGet(data, "timestamp", 0)]

\* variant: the counter is compared with > instead of >=
ShouldDrop_StrictlyGreater(retry_count) == retry_count > MAX_RETRY_COUNT

\* if retry_count >= MAX_RETRY_COUNT: drop
ShouldDrop(retry_count) == retry_count >= MAX_RETRY_COUNT

\* variant: the counter advances by two
NewRetryCount_ByTwo(retry_count) == retry_count + 2

\* new_retry_count = retry_count + 1
NewRetryCount(retry_count) == retry_count + 1

\* the copy handed to basic_publish: the same body, the headers with the counter set
RetryCopy(d, headers, retry_count) ==
    [lin |-> d.lin,
     body |-> d.body,
     headers |-> <<DictSet(headers, RETRY_HEADER_KEY, IntVal(NewRetryCount(retry_count)))>>]

\* bookkeeping: the broker action that ends a delivery, and the path taken
\* variant: a nack is followed by an ack of the same delivery
Note_Both(h, l, act, path) ==
    [h EXCEPT ![l].acts =
       IF act = "nack"
       THEN @ \o <<[act |-> act, path |-> path], [act |-> "ack", path |-> path]>>
       ELSE Append(@, [act |-> act, path |-> path])]

Note(h, l, act, path) ==
    [h EXCEPT ![l].acts = Append(@, [act |-> act, path |-> path])]

\* the delivery ends: the worker is ready for the next one
EndDelivery(w, q, h) ==
    /\ worker' = [worker EXCEPT ![w] = Idle]
    /\ queue' = q
    /\ hist' = h

\* variant: the original is acked also when the republish failed
RetryOrDrop_AckAnyway(w, d, rest, h) ==
    LET headers == HeadersOf(d)
        retry_count == get_retry_count(headers)
    IN  IF ShouldDrop(retry_count)
        THEN /\ EndDelivery(w, rest, Note(h, d.lin, "nack", "exhausted"))
             /\ faults' = faults
        ELSE \E pubOk \in BOOLEAN :
               IF pubOk
               THEN LET copy == RetryCopy(d, headers, retry_count)
                        h1 == [h EXCEPT ![d.lin].republished =
                                 Append(@, [retry |-> get_retry_count(HeadersOf(copy)),
                                            body |-> copy.body,
                                            headers |-> HeadersOf(copy)])]
                    IN  /\ EndDelivery(w, Append(rest, copy),
                                       Note(h1, d.lin, "ack", "retry"))
                        /\ faults' = faults
               ELSE /\ faults < MaxFaults
                    /\ EndDelivery(w, rest, Note(h, d.lin, "ack", "pubfail"))
                    /\ faults' = faults + 1

\* the `except Exception` branch of callback
RetryOrDrop(w, d, rest, h) ==
    LET headers == HeadersOf(d)
        retry_count == get_retry_count(headers)
    IN  IF ShouldDrop(retry_count)
        THEN /\ EndDelivery(w, rest, Note(h, d.lin, "nack", "exhausted"))
             /\ faults' = faults
        ELSE \E pubOk \in BOOLEAN :
               IF pubOk
               THEN LET copy == RetryCopy(d, headers, retry_count)
                        h1 == [h EXCEPT ![d.lin].republished =
                                 Append(@, [retry |-> get_retry_count(HeadersOf(copy)),
                                            body |-> copy.body,
                                            headers |-> HeadersOf(copy)])]
                    IN  /\ EndDelivery(w, Append(rest, copy),
                                       Note(h1, d.lin, "ack", "retry"))
                        /\ faults' = faults
               ELSE /\ faults < MaxFaults
                    /\ EndDelivery(w, rest, Note(h, d.lin, "nack", "pubfail"))
                    /\ faults' = faults + 1

(***************************************************************************)
(* manager/manager.py: process_coverage_report                             *)
(***************************************************************************)
ReportsFor(rs, repo_id, branch) ==
    {r \in rs : r.repo_id = repo_id /\ r.branch = branch}

FilesFor(fs, repo_id, branch) ==
    {f \in fs : f.repo_id = repo_id /\ f.branch = branch}

\* variant: the lookup is not filtered by repo_id
ConfigLookup_Any(repo_id) ==
    IF config = {} THEN {<<>>} ELSE {<<c>> : c \in config}

\* db.query(CoverageConfig).filter(repo_id == ...).first(): <<>> is None
ConfigLookup(repo_id) ==
    LET cs == {c \in config : c.repo_id = repo_id}
    IN  IF cs = {} THEN {<<>>} ELSE {<<c>> : c \in cs}

\* db.query(CoverageReport).filter(...).first(): no ORDER BY, any matching row
ExistingReportChoices(repo_id, branch) ==
    LET rs == ReportsFor(reports, repo_id, branch)
    IN  IF rs = {} THEN {<<>>} ELSE {<<r>> : r \in rs}

\* {f.file_path: f for f in existing_files}: with several rows of one path the
\* row kept depends on the order of the result
ExistingFileMaps(repo_id, branch) ==
    LET ef == FilesFor(files, repo_id, branch)
        paths == {f.file_path : f \in ef}
    IN  {m \in [paths -> ef] : \A p \in paths : m[p].file_path = p}

get_base_branch_for_repo(repo_id) ==
    LET cs == {c \in config : c.repo_id = repo_id}
    IN  IF cs = {} THEN "master" ELSE (CHOOSE c \in cs : TRUE).base_branch

\* variant: the base commit is cleared so that it is resolved again
UpdatedReport_Rebase(r, msg, repo_name, now) ==
    [r EXCEPT !.repo_name = repo_name,
              !.commit = msg.commit,
              !.base_commit = "",
              !.status = "processing",
              !.updated_at = now]

\* the branch `if existing_report:`
UpdatedReport(r, msg, repo_name, now) ==
    [r EXCEPT !.repo_name = repo_name,
              !.commit = msg.commit,
              !.ci_provider = DictGet(msg.ci, "provider", ""),
              !.ci_pipeline_id = DictGet(msg.ci, "pipeline_id", ""),
              !.ci_job_id = DictGet(msg.ci, "job_id", ""),
              !.coverage_format = DictGet(msg.coverage, "format", "goc"),
              !.coverage_raw = DictGet(msg.coverage, "raw", <<>>),
              !.status = "processing",
              !.updated_at = now]

\* the branch `else:` CoverageReport(...)
NewReport(id, msg, repo_name, base_branch, now) ==
    [id |-> id,
     repo_id |-> msg.repo_id,
     repo_name |-> repo_name,
     branch |-> msg.branch,
     base_branch |-> base_branch,
     commit |-> msg.commit,
     base_commit |-> "",
     ci_provider |-> DictGet(msg.ci, "provider", ""),
     ci_pipeline_id |-> DictGet(msg.ci, "pipeline_id", ""),
     ci_job_id |-> DictGet(msg.ci, "job_id", ""),
     coverage_format |-> DictGet(msg.coverage, "format", "goc"),
     coverage_raw |-> DictGet(msg.coverage, "raw", <<>>),
     status |-> "processing",
     error_message |-> None,
     created_at |-> now,
     updated_at |-> now]

\* the parser chosen by coverage_format (the caller has checked the format)
ParseCoverage(coverage_format, raw) ==
    IF coverage_format \in {"pyca", "pca"} THEN parse_pyca_coverage(raw)
    ELSE parse_goc_coverage(raw)

\* variant: every path gets a new File row, the existing ones are not looked up
FileOps_AlwaysNew(file_coverage, sel, report, ranges_timestamp, firstId) ==
    [i \in 1..Len(file_coverage) |->
        [isNew |-> TRUE,
         file |-> [id |-> firstId + i - 1,
                   repo_id |-> report.repo_id,
                   branch |-> report.branch,
                   file_path |-> file_coverage[i].file_path,
                   created_at |-> ranges_timestamp,
                   updated_at |-> ranges_timestamp],
         ranges |-> file_coverage[i].ranges]]

\* the loop over file_coverage.items(): per path the File row written (the
\* existing one with updated_at set, or a new one with the next id) and the
\* ranges that replace those of that row
FileOps(file_coverage, sel, report, ranges_timestamp, firstId) ==
    [i \in 1..Len(file_coverage) |->
        LET file_path == file_coverage[i].file_path
            isNew == file_path \notin DOMAIN sel
            newBefore == Cardinality({j \in 1..(i - 1) :
                                        file_coverage[j].file_path \notin DOMAIN sel})
        IN  [isNew |-> isNew,
             file |-> IF isNew
                      THEN [id |-> firstId + newBefore,
                            repo_id |-> report.repo_id,
                            branch |-> report.branch,
                            file_path |-> file_path,
                            created_at |-> ranges_timestamp,
                            updated_at |-> ranges_timestamp]
                      ELSE [sel[file_path] EXCEPT !.updated_at = ranges_timestamp],
             ranges |-> file_coverage[i].ranges]]

NewFileCount(ops) == Cardinality({i \in 1..Len(ops) : ops[i].isNew})

\* the UPDATE the session emits for a loaded row: status and updated_at were
\* changed at the first flush and are written again; any other column is
\* written when its value differs from the loaded one
MergeRow(cur, loaded, new) ==
    [f \in DOMAIN cur |->
        IF f \in {"status", "updated_at"} \/ new[f] # loaded[f] THEN new[f] ELSE cur[f]]

\* variant: the Report is inserted also when one was loaded
WriteReport_AlwaysInsert(rs, loaded, row) ==
    rs \cup {[row EXCEPT !.id = row.id + Cardinality(rs)]}

\* the Report row as committed: INSERT of a new row, or UPDATE ... WHERE id
WriteReport(rs, loaded, row) ==
    IF loaded = <<>> THEN rs \cup {row}
    ELSE {IF r.id = row.id THEN MergeRow(r, loaded[1], row) ELSE r : r \in rs}

\* the File rows as committed
WriteFiles(fs, ops) ==
    LET updated == {ops[i].file.id : i \in {j \in 1..Len(ops) : ~ops[j].isNew}}
        stamp == IF ops = <<>> THEN 0 ELSE ops[1].file.updated_at
    IN  {IF f.id \in updated THEN [f EXCEPT !.updated_at = stamp] ELSE f : f \in fs}
          \cup {ops[i].file : i \in {j \in 1..Len(ops) : ops[j].isNew}}

RangeRow(file_id, r, created_at) ==
    [file_id |-> file_id,
     start_line |-> r.start_line,
     start_col |-> r.start_col,
     end_line |-> r.end_line,
     end_col |-> r.end_col,
     statements |-> r.statements,
     hit |-> r.hit,
     created_at |-> created_at]

\* variant: the delete has no filter on file_id
DeleteRanges_Unfiltered(rg, file_ids) == EmptyBag

\* variant: the old ranges are not deleted
DeleteRanges_Nothing(rg, file_ids) == rg

\* db.query(CoverageRange).filter(file_id == file.id).delete()
DeleteRanges(rg, file_ids) ==
    LET keep == {x \in DOMAIN rg : x.file_id \notin file_ids}
    IN  [x \in keep |-> rg[x]]

\* the rows added by `for r in ranges: db.add(range_obj)` for every path
InsertedRanges(ops, created_at) ==
    LET idx == UNION {{<<i, j>> : j \in 1..Len(ops[i].ranges)} : i \in 1..Len(ops)}
        rowOf(ij) == RangeRow(ops[ij[1]].file.id, ops[ij[1]].ranges[ij[2]], created_at)
        rows == {rowOf(ij) : ij \in idx}
    IN  [x \in rows |-> Cardinality({ij \in idx : rowOf(ij) = x})]

\* variant: the new rows are not inserted
WriteRanges_DeleteOnly(rg, ops, created_at) ==
    DeleteRanges(rg, {ops[i].file.id : i \in 1..Len(ops)})

\* the Range rows as committed: per written File the old rows are deleted and
\* the new ones inserted
WriteRanges(rg, ops, created_at) ==
    DeleteRanges(rg, {ops[i].file.id : i \in 1..Len(ops)})
        (+) InsertedRanges(ops, created_at)

(***************************************************************************)
(* Actions                                                                 *)
(***************************************************************************)
\* git merge-base <base_branch> <target_commit> in the bare repository: the
\* answer depends on both arguments
MergeBase(base_branch, target_commit) ==
    IF base_branch = "develop"
    THEN IF target_commit = "abc" THEN "base0" ELSE "base1"
    ELSE "base2"

\* get_base_commit_from_git: the merge base, or None when git fails or times out
get_base_commit_from_git(base_branch, target_commit) ==
    {None, MergeBase(base_branch, target_commit)}

\* variant: the status is left as the upsert set it
CommittedRow_Processing(report, ranges_timestamp) ==
    [report EXCEPT !.updated_at = ranges_timestamp]

\* report.status = 'completed'; report.updated_at = ranges_timestamp
CommittedRow(report, ranges_timestamp) ==
    [report EXCEPT !.status = "completed", !.updated_at = ranges_timestamp]

BaseBranches == {"develop", "main"}

\* set_base_branch_for_repo: the admin surface changes Config.base_branch
SetBaseBranch ==
    /\ \E c \in config, base_branch \in BaseBranches :
         /\ c.base_branch # base_branch
         /\ config' = (config \ {c}) \cup {[c EXCEPT !.base_branch = base_branch]}
    /\ UNCHANGED <<queue, worker, reports, files, ranges, worktrees, nextReportId,
                   nextFileId, clock, faults, hist>>
    /\ UNCHANGED <<treeVars, pureVars, apiVars>>

\* lines = raw.split('\n') raises AttributeError when raw is not a str
ParserRaises(raw) == raw = NotAString

\* str(e) of that AttributeError
ParserError == "'int' object has no attribute 'split'"

\* process_coverage_report up to the call of clone_or_update_repo (or up to
\* the commit of the failed status): the reads and the flushed, uncommitted
\* writes of the transaction
BeginIngestion(w, d, rest, msg, h) ==
    LET now == clock
        second == clock + 1
    IN  \E cfg \in ConfigLookup(msg.repo_id) :
          IF cfg = <<>>
          THEN \* not in the config table: return, and the callback acks
               /\ EndDelivery(w, rest, Note(h, d.lin, "ack", "drop"))
               /\ clock' = clock + 1
               /\ UNCHANGED <<config, reports, files, ranges, worktrees,
                              nextReportId, nextFileId, faults>>
          ELSE
            \E existing \in ExistingReportChoices(msg.repo_id, msg.branch) :
            \E sel \in ExistingFileMaps(msg.repo_id, msg.branch) :
              LET repo_name == cfg[1].repo_name
                  report == IF existing # <<>>
                            THEN UpdatedReport(existing[1], msg, repo_name, now)
                            ELSE NewReport(nextReportId, msg, repo_name,
                                           get_base_branch_for_repo(msg.repo_id), now)
                  coverage_format == DictGet(msg.coverage, "format", "goc")
                  raw == DictGet(msg.coverage, "raw", <<>>)
              IN  /\ nextReportId' = IF existing = <<>> THEN nextReportId + 1
                                     ELSE nextReportId
                  /\ clock' = clock + 2
                  /\ queue' = rest
                  /\ hist' = h
                  /\ IF coverage_format \in SupportedFormats /\ ~ParserRaises(raw)
                     THEN LET ops == FileOps(ParseCoverage(coverage_format, raw), sel,
                                             report, second, nextFileId)
                          IN  /\ worker' = [worker EXCEPT ![w] =
                                    [pc |-> "tx", d |-> d,
                                     tx |-> [kind |-> "store", msg |-> msg,
                                             loaded |-> existing, report |-> report,
                                             ops |-> ops, ranges_timestamp |-> second,
                                             calls |-> <<>>]]]
                              /\ nextFileId' = nextFileId + NewFileCount(ops)
                     ELSE /\ worker' = [worker EXCEPT ![w] =
                                [pc |-> "tx", d |-> d,
                                 tx |-> [kind |-> IF coverage_format \in SupportedFormats
                                                  THEN "parser" ELSE "unsupported",
                                         msg |-> msg,
                                         loaded |-> existing,
                                         report |->
                                           [report EXCEPT
                                              !.status = "failed",
                                              !.error_message =
                                                 IF coverage_format \in SupportedFormats
                                                 THEN ParserError
                                                 ELSE "unsupported coverage format: "
                                                         \o coverage_format,
                                              !.updated_at = second]]]]
                          /\ nextFileId' = nextFileId
                  /\ UNCHANGED <<config, reports, files, ranges, worktrees, faults>>

\* callback, from the delivery to the first effect other workers can see
Receive(w) ==
    /\ worker[w].pc = "idle"
    /\ queue # <<>>
    /\ LET d == Head(queue)
           rest == Tail(queue)
           body == BodyOf(d.body)
           dec == Decode(body)
           h == [hist EXCEPT ![d.lin].deliveries = @ + 1]
       IN  IF dec.err = "JSONDecodeError"
           THEN /\ EndDelivery(w, rest, Note(h, d.lin, "nack", "poison"))
                /\ UNCHANGED <<config, reports, files, ranges, worktrees,
                               nextReportId, nextFileId, clock, faults>>
           ELSE IF dec.err # "none" \/ dec.jtype # "object"
           THEN \* UnicodeDecodeError, or AttributeError in CoverageReportMessage
                /\ RetryOrDrop(w, d, rest, h)
                /\ UNCHANGED <<config, reports, files, ranges, worktrees,
                               nextReportId, nextFileId, clock>>
           ELSE LET msg == CoverageReportMessage(body.data)
                IN  IF msg.repo_id = ""
                    THEN /\ EndDelivery(w, rest, Note(h, d.lin, "nack", "emptyid"))
                         /\ UNCHANGED <<config, reports, files, ranges, worktrees,
                                        nextReportId, nextFileId, clock, faults>>
                    ELSE BeginIngestion(w, d, rest, msg,
                                        [h EXCEPT ![d.lin].invoked = @ + 1])
    /\ UNCHANGED <<treeVars, pureVars, apiVars>>

\* variant: the base commit is resolved also when the target tree is missing
ShouldResolve_Always(repo_cloned, base_commit) == base_commit = ""

\* if repo_cloned and (not report.base_commit or report.base_commit == '')
ShouldResolve(repo_cloned, base_commit) == repo_cloned /\ base_commit = ""

\* a call of clone_or_update_repo for a commit, and its result
CloneCall(commit, ok) == [op |-> "clone", commit |-> commit, ok |-> ok]

\* a call of get_base_commit_from_git, and the commit it returned (or None)
ResolveCall(resolved) == [op |-> "resolve", commit |-> resolved, ok |-> resolved # None]

\* lines 374-440: clone_or_update_repo for the target commit, base-commit
\* resolution and the base tree, all inside the open transaction; tx.calls
\* keeps the calls made, in order
Materialize(w) ==
    /\ worker[w].pc = "tx"
    /\ worker[w].tx.kind = "store"
    /\ \E repo_cloned \in BOOLEAN, base_ok \in BOOLEAN, again_ok \in BOOLEAN :
       \E resolved \in get_base_commit_from_git(
                           IF worker[w].tx.report.base_branch = "" THEN "master"
                           ELSE worker[w].tx.report.base_branch,
                           worker[w].tx.msg.commit) :
         LET tx == worker[w].tx
             msg == tx.msg
             wt1 == IF repo_cloned
                    THEN worktrees \cup {[repo |-> msg.repo, commit |-> msg.commit]}
                    ELSE worktrees
             resolving == ShouldResolve(repo_cloned, tx.report.base_commit)
             base_commit == IF resolving /\ resolved # None THEN resolved
                            ELSE tx.report.base_commit
             wt2 == IF resolving /\ resolved # None /\ base_ok
                    THEN wt1 \cup {[repo |-> msg.repo, commit |-> base_commit]}
                    ELSE wt1
             ensure == /\ repo_cloned
                       /\ base_commit # ""
                       /\ [repo |-> msg.repo, commit |-> base_commit] \notin wt2
             wt3 == IF ensure /\ again_ok
                    THEN wt2 \cup {[repo |-> msg.repo, commit |-> base_commit]}
                    ELSE wt2
             calls == <<CloneCall(msg.commit, repo_cloned)>>
                        \o (IF resolving THEN <<ResolveCall(resolved)>> ELSE <<>>)
                        \o (IF resolving /\ resolved # None
                            THEN <<CloneCall(base_commit, base_ok)>> ELSE <<>>)
                        \o (IF ensure THEN <<CloneCall(base_commit, again_ok)>> ELSE <<>>)
         IN  /\ worktrees' = wt3
             /\ worker' = [worker EXCEPT ![w].pc = "cloned",
                                         ![w].tx.report.base_commit = base_commit,
                                         ![w].tx.calls = calls]
             /\ hist' = [hist EXCEPT ![worker[w].d.lin].matCalls = @ + 1]
    /\ UNCHANGED <<queue, config, reports, files, ranges, nextReportId, nextFileId,
                   clock, faults>>
    /\ UNCHANGED <<treeVars, pureVars, apiVars>>

\* lines 442-449 and the ack of the callback
Commit(w) ==
    /\ worker[w].pc = "cloned"
    /\ LET tx == worker[w].tx
           row == CommittedRow(tx.report, tx.ranges_timestamp)
       IN  /\ reports' = WriteReport(reports, tx.loaded, row)
           /\ files' = WriteFiles(files, tx.ops)
           /\ ranges' = WriteRanges(ranges, tx.ops, tx.ranges_timestamp)
           /\ EndDelivery(w, queue, Note(hist, worker[w].d.lin, "ack", "ok"))
    /\ UNCHANGED <<config, worktrees, nextReportId, nextFileId, clock, faults>>
    /\ UNCHANGED <<treeVars, pureVars, apiVars>>

\* variant: the failed status is rolled back with the rest of the transaction
FailCommit_RolledBack(w) ==
    /\ worker[w].pc = "tx"
    /\ worker[w].tx.kind \in {"parser", "unsupported"}
    /\ reports' = reports
    /\ RetryOrDrop(w, worker[w].d, queue,
                   [hist EXCEPT ![worker[w].d.lin].raisedIn = @ + 1])
    /\ UNCHANGED <<config, files, ranges, worktrees, nextReportId, nextFileId, clock>>
    /\ UNCHANGED <<treeVars, pureVars, apiVars>>

\* lines 279-284, 289-294, 300-305 and 307-314: the failed status is
\* committed, the exception is raised, the rollback finds nothing to undo and
\* the callback treats it as a failure
FailCommit(w) ==
    /\ worker[w].pc = "tx"
    /\ worker[w].tx.kind \in {"parser", "unsupported"}
    /\ reports' = WriteReport(reports, worker[w].tx.loaded, worker[w].tx.report)
    /\ RetryOrDrop(w, worker[w].d, queue,
                   [hist EXCEPT ![worker[w].d.lin].raisedIn = @ + 1])
    /\ UNCHANGED <<config, files, ranges, worktrees, nextReportId, nextFileId, clock>>
    /\ UNCHANGED <<treeVars, pureVars, apiVars>>

\* variant: the flushed Report row survives the failure
RolledBack_Flushed(rs, loaded, report) == WriteReport(rs, loaded, report)

\* db.rollback(): the committed rows are what they were before the
\* transaction, whatever it had flushed
RolledBack(rs, loaded, report) == rs

\* a store error while the transaction is open: lines 455-457 roll back and
\* re-raise, the callback treats it as a failure
StoreError(w) ==
    /\ worker[w].pc \in {"tx", "cloned"}
    /\ faults < MaxFaults
    /\ \E pubOk \in BOOLEAN :
         LET d == worker[w].d
             headers == HeadersOf(d)
             retry_count == get_retry_count(headers)
             h == [hist EXCEPT ![d.lin].raisedIn = @ + 1]
         IN  /\ pubOk
             /\ faults' = faults + 1
             /\ IF ShouldDrop(retry_count)
                THEN EndDelivery(w, queue, Note(h, d.lin, "nack", "exhausted"))
                ELSE LET copy == RetryCopy(d, headers, retry_count)
                         h1 == [h EXCEPT ![d.lin].republished =
                                  Append(@, [retry |-> get_retry_count(HeadersOf(copy)),
                                             body |-> copy.body,
                                             headers |-> HeadersOf(copy)])]
                     IN  EndDelivery(w, Append(queue, copy),
                                     Note(h1, d.lin, "ack", "retry"))
    /\ reports' = RolledBack(reports, worker[w].tx.loaded, worker[w].tx.report)
    /\ UNCHANGED <<config, files, ranges, worktrees, nextReportId,
                   nextFileId, clock>>
    /\ UNCHANGED <<treeVars, pureVars, apiVars>>

\* the worker process dies while clone_or_update_repo runs: the transaction
\* is never committed, and the broker requeues the unacked delivery
\* (basic_consume with auto_ack=False)
Crash(w) ==
    /\ worker[w].pc = "cloned"
    /\ faults < MaxFaults
    /\ faults' = faults + 1
    /\ worker' = [worker EXCEPT ![w] = Idle]
    /\ queue' = <<worker[w].d>> \o queue
    /\ hist' = [hist EXCEPT ![worker[w].d.lin].crashes = @ + 1]
    /\ UNCHANGED <<config, reports, files, ranges, worktrees, nextReportId,
                   nextFileId, clock>>
    /\ UNCHANGED <<treeVars, pureVars, apiVars>>

\* the worker after main() has closed the channel and the connection
Stopped == [pc |-> "stopped", d |-> [lin |-> 0], tx |-> [kind |-> "none"]]

\* SIGINT reaches the worker process: KeyboardInterrupt is raised where the
\* main thread is.  Inside the callback no `except Exception` catches it: the
\* `finally: db.close()` of process_coverage_report drops the open
\* transaction, neither basic_ack nor basic_nack is called, and main() stops
\* consuming and closes the channel and the connection, upon which the broker
\* requeues the unacked delivery.  Between two deliveries main() only stops
\* consuming and closes.
Signal(w) ==
    /\ worker[w].pc # "stopped"
    /\ worker' = [worker EXCEPT ![w] = Stopped]
    /\ IF worker[w].pc = "idle"
       THEN UNCHANGED <<queue, hist>>
       ELSE /\ queue' = <<worker[w].d>> \o queue
            /\ hist' = Note(hist, worker[w].d.lin, "none", "interrupted")
    /\ UNCHANGED <<config, reports, files, ranges, worktrees, nextReportId,
                   nextFileId, clock, faults>>
    /\ UNCHANGED <<treeVars, pureVars, apiVars>>

(***************************************************************************)
(* diff_coverage.py: _parse_unified_diff                                   *)
(***************************************************************************)
DiffGitPrefix == <<"d", "i", "f", "f", " ", "-", "-", "g", "i", "t">>

HunkPrefix == <<"@", "@">>

\* the hunk header: [ok |-> FALSE] stands for ValueError or IndexError
ParseHunkHeader(line) ==
    LET header == StrStrip(StrSplitOn(line, HunkPrefix)[2])
        parts == StrSplitWS(header)
    IN  IF Len(parts) < 2 THEN [ok |-> FALSE]
        ELSE LET old_range == StrSplit(StrLStrip(parts[1], {"-"}), ",")
                 new_range == StrSplit(StrLStrip(parts[2], {"+"}), ",")
             IN  IF \/ ~IsIntText(old_range[1])
                    \/ (Len(old_range) > 1 /\ ~IsIntText(old_range[2]))
                    \/ ~IsIntText(new_range[1])
                    \/ (Len(new_range) > 1 /\ ~IsIntText(new_range[2]))
                 THEN [ok |-> FALSE]
                 ELSE [ok |-> TRUE,
                       old_start |-> IntOfText(old_range[1]),
                       old_count |-> IF Len(old_range) > 1
                                     THEN IntOfText(old_range[2]) ELSE 1,
                       new_start |-> IntOfText(new_range[1]),
                       new_count |-> IF Len(new_range) > 1
                                     THEN IntOfText(new_range[2]) ELSE 1]

\* content_line.startswith('+') and not content_line.startswith('+++')
IsAddedLine(content_line) ==
    /\ StrStartsWith(content_line, <<"+">>)
    /\ ~StrStartsWith(content_line, <<"+", "+", "+">>)

\* content_line.startswith('-') and not content_line.startswith('---')
IsDeletedLine(content_line) ==
    /\ StrStartsWith(content_line, <<"-">>)
    /\ ~StrStartsWith(content_line, <<"-", "-", "-">>)

\* the inner `while i < len(lines)`: i is the 1-based index of the line to
\* read; the result carries the value of i when the loop is left
RECURSIVE ScanHunkBody(_, _, _, _, _, _, _)
ScanHunkBody(lines, i, new_line_num, old_line_num, added_lines, deleted_lines, total) ==
    IF i > Len(lines)
    THEN [i |-> i, added_lines |-> added_lines, deleted_lines |-> deleted_lines]
    ELSE LET content_line == lines[i]
         IN  IF \/ StrStartsWith(content_line, HunkPrefix)
                \/ StrStartsWith(content_line, DiffGitPrefix)
             THEN [i |-> i - 1, added_lines |-> added_lines,
                   deleted_lines |-> deleted_lines]
             ELSE LET added == IF IsAddedLine(content_line)
                               THEN Append(added_lines, new_line_num)
                               ELSE added_lines
                      deleted == IF ~IsAddedLine(content_line)
                                    /\ IsDeletedLine(content_line)
                                 THEN Append(deleted_lines, old_line_num)
                                 ELSE deleted_lines
                      context == /\ ~IsAddedLine(content_line)
                                 /\ ~IsDeletedLine(content_line)
                                 /\ StrStartsWith(content_line, <<" ">>)
                      new_next == IF IsAddedLine(content_line) \/ context
                                  THEN new_line_num + 1 ELSE new_line_num
                      old_next == IF Len(deleted) > Len(deleted_lines) \/ context
                                  THEN old_line_num + 1 ELSE old_line_num
                  IN  IF Len(added) + Len(deleted) >= total
                      THEN [i |-> i + 1, added_lines |-> added,
                            deleted_lines |-> deleted]
                      ELSE ScanHunkBody(lines, i + 1, new_next, old_next,
                                        added, deleted, total)

\* the outer `while i < len(lines)`, each pass ending with `i += 1`;
\* current_file is <<>> while no diff header was read (None)
RECURSIVE ParseDiffFrom(_, _, _, _)
ParseDiffFrom(lines, i, current_file, hunks) ==
    IF i > Len(lines) THEN hunks
    ELSE LET line == lines[i]
         IN  IF StrStartsWith(line, DiffGitPrefix)
             THEN LET parts == StrSplitWS(line)
                      file == IF Len(parts) >= 4
                              THEN IF StrStartsWith(parts[4], <<"b", "/">>)
                                   THEN SubSeq(parts[4], 3, Len(parts[4]))
                                   ELSE parts[4]
                              ELSE current_file
                  IN  ParseDiffFrom(lines, i + 1, file, hunks)
             ELSE IF StrStartsWith(line, HunkPrefix)
             THEN IF current_file = <<>>
                  THEN ParseDiffFrom(lines, i + 1, current_file, hunks)
                  ELSE LET h == ParseHunkHeader(line)
                       IN  IF ~h.ok
                           THEN ParseDiffFrom(lines, i + 1, current_file, hunks)
                           ELSE LET body == ScanHunkBody(lines, i + 1, h.new_start,
                                                         h.old_start, <<>>, <<>>,
                                                         h.old_count + h.new_count)
                                    hunk == [file_path |-> current_file,
                                             old_start |-> h.old_start,
                                             old_count |-> h.old_count,
                                             new_start |-> h.new_start,
                                             new_count |-> h.new_count,
                                             added_lines |-> body.added_lines,
                                             deleted_lines |-> body.deleted_lines,
                                             modified_lines |-> <<>>]
                                IN  ParseDiffFrom(lines, body.i + 1, current_file,
                                                  Append(hunks, hunk))
             ELSE ParseDiffFrom(lines, i + 1, current_file, hunks)

_parse_unified_diff(diff_output) ==
    ParseDiffFrom(StrSplit(diff_output, "\n"), 1, <<>>, <<>>)

(***************************************************************************)
(* manager/repo_manager.py: concurrent clone_or_update_repo(U, C) calls    *)
(* for one repository U and one commit C                                   *)
(***************************************************************************)
NumCallers == 2

Callers == 1..NumCallers

\* CommitLock.__enter__: max_retries
max_retries == 30

\* worktrees/<C>: "absent"  no directory, or one without .git
\*                "partial" directory and .git exist, HEAD does not resolve to C
\*                "ok"      directory and .git exist, HEAD resolves to C
TreeStates == {"absent", "partial", "ok"}

NewCall ==
    [pc |-> "call", retry_count |-> 0, slept |-> 0, locked |-> FALSE,
     created |-> FALSE, ret |-> None]

\* the call has returned `value`
Returned(c, value) == [c EXCEPT !.pc = "done", !.ret = value]

\* os.path.exists(worktree_dir) and os.path.exists(worktree_dir/.git)
WorktreeExists(t) == t # "absent"

\* variant: the lock is granted whoever holds it
flock_ok_Always(holder) == TRUE

\* fcntl.flock(fd, LOCK_EX | LOCK_NB) succeeds
flock_ok(holder) == holder = 0

\* variant: one more attempt is made before giving up
GiveUp_Later(retry_count) == retry_count >= max_retries + 1

\* `while retry_count < max_retries` fails, and the `else: raise`
GiveUp(retry_count) == retry_count >= max_retries

\* clone_or_update_repo, steps 1 and 2: ensure_bare_repo and fetch_commit
CloneStart(p) ==
    /\ caller[p].pc = "call"
    /\ \E bare_ok \in BOOLEAN, fetch_ok \in BOOLEAN :
         caller' = [caller EXCEPT ![p] =
                      IF bare_ok /\ fetch_ok THEN [@ EXCEPT !.pc = "exists"]
                      ELSE Returned(@, FALSE)]
    /\ UNCHANGED <<lockHolder, tree>>
    /\ UNCHANGED <<mainVars, pureVars, apiVars>>

\* ensure_worktree, the first existence test (before the lock)
Exists(p) ==
    /\ caller[p].pc = "exists"
    /\ caller' = [caller EXCEPT ![p].pc =
                    IF WorktreeExists(tree) THEN "revparse" ELSE "enter"]
    /\ UNCHANGED <<lockHolder, tree>>
    /\ UNCHANGED <<mainVars, pureVars, apiVars>>

\* git rev-parse HEAD in the worktree: success returns True, a different
\* commit or an exception (timeout, directory gone) leads to rmtree
RevParse(p) ==
    /\ caller[p].pc = "revparse"
    /\ \E answered \in BOOLEAN :
         caller' = [caller EXCEPT ![p] =
                      IF answered /\ tree = "ok" THEN Returned(@, TRUE)
                      ELSE [@ EXCEPT !.pc = "rmtree"]]
    /\ UNCHANGED <<lockHolder, tree>>
    /\ UNCHANGED <<mainVars, pureVars, apiVars>>

\* shutil.rmtree(worktree_dir); FileNotFoundError when the directory is gone
\* leaves ensure_worktree, and clone_or_update_repo returns False
Rmtree(p) ==
    /\ caller[p].pc = "rmtree"
    /\ IF tree = "absent"
       THEN /\ caller' = [caller EXCEPT ![p] = Returned(@, FALSE)]
            /\ tree' = tree
       ELSE /\ caller' = [caller EXCEPT ![p].pc = "enter"]
            /\ tree' = "absent"
    /\ UNCHANGED lockHolder
    /\ UNCHANGED <<mainVars, pureVars, apiVars>>

\* CommitLock.__enter__: one non-blocking attempt; on failure sleep a second
\* and try again, or raise after max_retries failures
TryLock(p) ==
    /\ caller[p].pc = "enter"
    /\ IF flock_ok(lockHolder)
       THEN /\ lockHolder' = p
            /\ caller' = [caller EXCEPT ![p].pc = "recheck", ![p].locked = TRUE]
       ELSE LET retry_count == caller[p].retry_count + 1
            IN  /\ lockHolder' = lockHolder
                /\ caller' = [caller EXCEPT ![p] =
                                IF ~GiveUp(retry_count)
                                THEN [@ EXCEPT !.retry_count = retry_count,
                                               !.slept = @ + 1]
                                ELSE Returned([@ EXCEPT !.retry_count = retry_count],
                                              FALSE)]
    /\ UNCHANGED tree
    /\ UNCHANGED <<mainVars, pureVars, apiVars>>

\* the existence test repeated under the lock: return True without rev-parse
Recheck(p) ==
    /\ caller[p].pc = "recheck"
    /\ IF WorktreeExists(tree)
       THEN /\ caller' = [caller EXCEPT ![p] = Returned(@, TRUE)]
            /\ lockHolder' = 0
       ELSE /\ caller' = [caller EXCEPT ![p].pc = "add"]
            /\ lockHolder' = lockHolder
    /\ UNCHANGED tree
    /\ UNCHANGED <<mainVars, pureVars, apiVars>>

\* git worktree add starts: it fails at once, or it creates the directory
\* and .git and begins the checkout
AddBegin(p) ==
    /\ caller[p].pc = "add"
    /\ \E started \in BOOLEAN :
         IF started /\ tree = "absent"
         THEN /\ caller' = [caller EXCEPT ![p].pc = "adding", ![p].created = TRUE]
              /\ tree' = "partial"
              /\ lockHolder' = lockHolder
         ELSE /\ caller' = [caller EXCEPT ![p] =
                              Returned([@ EXCEPT !.created = TRUE], FALSE)]
              /\ tree' = tree
              /\ lockHolder' = 0
    /\ UNCHANGED <<mainVars, pureVars, apiVars>>

\* git worktree add ends: exit status 0 with HEAD at C; or a failure or the
\* 300 s timeout, which leaves what was written or cleans it up
AddEnd(p) ==
    /\ caller[p].pc = "adding"
    /\ \E rc_ok \in BOOLEAN, cleaned \in BOOLEAN :
         IF rc_ok /\ tree = "partial"
         THEN /\ caller' = [caller EXCEPT ![p].pc = "added"]
              /\ tree' = "ok"
              /\ lockHolder' = lockHolder
         ELSE /\ ~rc_ok
              /\ caller' = [caller EXCEPT ![p] = Returned(@, FALSE)]
              /\ tree' = IF cleaned THEN "absent" ELSE tree
              /\ lockHolder' = 0
    /\ UNCHANGED <<mainVars, pureVars, apiVars>>

\* `return True` inside the with block; CommitLock.__exit__ unlocks
AddReturn(p) ==
    /\ caller[p].pc = "added"
    /\ caller' = [caller EXCEPT ![p] = Returned(@, TRUE)]
    /\ lockHolder' = 0
    /\ UNCHANGED tree
    /\ UNCHANGED <<mainVars, pureVars, apiVars>>

TreeStep(p) ==
    \/ CloneStart(p)
    \/ Exists(p)
    \/ RevParse(p)
    \/ Rmtree(p)
    \/ TryLock(p)
    \/ Recheck(p)
    \/ AddBegin(p)
    \/ AddEnd(p)
    \/ AddReturn(p)

\* no call is running
TreeQuiet ==
    /\ caller = [p \in Callers |-> NewCall]
    /\ lockHolder = 0
    /\ tree = "absent"

(***************************************************************************)
(* Inputs of the functions of diff_coverage.py                             *)
(***************************************************************************)
MaxDiffFiles == 2

MaxHunks == 2

DiffPaths == {<<"f">>, <<"g">>, <<"h">>}

\* zero-context hunks as `git diff -U0` prints them, by rising line number
HunkTemplates ==
    << [header |-> <<"@", "@", " ", "-", "1", ",", "0", " ", "+", "2", ",", "2", " ", "@", "@">>,
        body |-> <<<<"+", "x">>, <<"+", "y">>>>,
        new_start |-> 2, new_count |-> 2],
       [header |-> <<"@", "@", " ", "-", "5", " ", "+", "7", " ", "@", "@", " ", "f", "n">>,
        body |-> <<<<"-", "o">>, <<"+", "n">>>>,
        new_start |-> 7, new_count |-> 1],
       [header |-> <<"@", "@", " ", "-", "9", ",", "2", " ", "+", "1", "0", ",", "0", " ", "@", "@">>,
        body |-> <<<<"-", "p">>, <<"-", "q">>>>,
        new_start |-> 10, new_count |-> 0],
       [header |-> <<"@", "@", " ", "-", "1", "2", ",", "0", " ", "+", "1", "2", ",", "2", " ", "@", "@">>,
        body |-> <<<<"+", "+", "+", "i">>, <<"+", "z">>>>,
        new_start |-> 12, new_count |-> 2] >>

\* the four header lines git prints for the file `path`
FileHeader(path) ==
    << <<"d", "i", "f", "f", " ", "-", "-", "g", "i", "t", " ", "a", "/">> \o path \o <<" ", "b", "/">> \o path,
       <<"i", "n", "d", "e", "x", " ", "1", ".", ".", "2", " ", "1", "0", "0", "6", "4", "4">>,
       <<"-", "-", "-", " ", "a", "/">> \o path,
       <<"+", "+", "+", " ", "b", "/">> \o path >>

RECURSIVE HunkLines(_)
HunkLines(ts) ==
    IF ts = <<>> THEN <<>>
    ELSE <<HunkTemplates[Head(ts)].header>> \o HunkTemplates[Head(ts)].body
           \o HunkLines(Tail(ts))

RECURSIVE DiffLines(_)
DiffLines(shape) ==
    IF shape = <<>> THEN <<>>
    ELSE FileHeader(Head(shape).path) \o HunkLines(Head(shape).hunks)
           \o DiffLines(Tail(shape))

\* the text of the diff, with the newline that ends the last line
DiffText(shape) == JoinLines(DiffLines(shape)) \o <<"\n">>

\* the hunks of one file: templates by rising line number
HunkChoices ==
    {ts \in UNION {[1..n -> 1..Len(HunkTemplates)] : n \in 1..MaxHunks} :
       \A a, b \in DOMAIN ts : a < b => ts[a] < ts[b]}

\* the files of a diff: distinct paths
DiffShapes ==
    {sh \in UNION {[1..n -> [path : DiffPaths, hunks : HunkChoices]] :
                     n \in 1..MaxDiffFiles} :
       \A a, b \in DOMAIN sh : a # b => sh[a].path # sh[b].path}

DiffInputs ==
    {[fn |-> "_parse_unified_diff", shape |-> sh, diff_output |-> DiffText(sh)] :
       sh \in DiffShapes}

\* the function has not returned
NoResult == [returned |-> FALSE]

\* the function has returned value
Result(value) == [returned |-> TRUE, value |-> value]

\* parse_git_diff hands the output of git diff to the parser
ParseDiff ==
    /\ input.fn = "_parse_unified_diff"
    /\ ~output.returned
    /\ output' = Result(_parse_unified_diff(input.diff_output))
    /\ UNCHANGED <<input, mainVars, treeVars, apiVars>>

(***************************************************************************)
(* The coverage index of one file (diff_coverage.py: CoverageBlock,        *)
(* CoverageIndex, build_coverage_index).  A dict is a function whose       *)
(* domain is the set of its keys; Optional[bool] is None, True or False.   *)
(***************************************************************************)
True == "True"

False == "False"

is_covered_Never(block) == block.hit <= 0

\* CoverageBlock.is_covered
is_covered(block) == block.hit > 0

LineRange_Exclusive(block) == block.start_line..(block.end_line - 1)

\* range(block.start_line, block.end_line + 1)
LineRange(block) == block.start_line..block.end_line

\* line_to_blocks after the blocks from position k on are added to it
RECURSIVE IndexFrom(_, _, _)
IndexFrom(coverage_blocks, k, line_to_blocks) ==
    IF k > Len(coverage_blocks) THEN line_to_blocks
    ELSE LET block == coverage_blocks[k]
             added ==
                 [line_num \in (DOMAIN line_to_blocks) \cup LineRange(block) |->
                    IF line_num \in LineRange(block)
                    THEN Append(IF line_num \in DOMAIN line_to_blocks
                                THEN line_to_blocks[line_num] ELSE <<>>, block)
                    ELSE line_to_blocks[line_num]]
         IN  IndexFrom(coverage_blocks, k + 1, added)

build_coverage_index(coverage_blocks) ==
    [file_path |-> "", line_to_blocks |-> IndexFrom(coverage_blocks, 1, <<>>)]

\* CoverageIndex.get_line_coverage
get_line_coverage(index, line_number) ==
    IF line_number \notin DOMAIN index.line_to_blocks THEN None
    ELSE LET blocks == index.line_to_blocks[line_number]
         IN  IF blocks = <<>> THEN None
             ELSE IF \E k \in DOMAIN blocks : is_covered(blocks[k]) THEN True
             ELSE False

\* max(...) of a non-empty set of integers
Max(S) == CHOOSE x \in S : \A y \in S : y <= x

\* CoverageIndex.get_line_hit_count
get_line_hit_count(index, line_number) ==
    IF line_number \notin DOMAIN index.line_to_blocks THEN 0
    ELSE LET blocks == index.line_to_blocks[line_number]
         IN  IF blocks = <<>> THEN 0
             ELSE Max({blocks[k].hit : k \in DOMAIN blocks})

\* the largest line number of a block
MaxLine == 3

\* the largest number of blocks of a file
MaxBlocks == 2

\* execution counts: never run, run once, run several times
Hits == {0, 1, 3}

\* the coverage ranges of a file as stored, a range that ends before it
\* starts included
CoverageBlocks ==
    [start_line : 1..MaxLine, start_col : {1}, end_line : 1..MaxLine,
     end_col : {9}, statements : {1}, hit : Hits]

IndexInputs ==
    {[fn |-> "build_coverage_index", coverage_blocks |-> bs] :
       bs \in UNION {[1..n -> CoverageBlocks] : n \in 0..MaxBlocks}}

\* the lines a caller asks about: every line of a block and the two around
QueryLines == 0..(MaxLine + 1)

\* build_coverage_index, then the two lookups for every line
BuildIndex ==
    /\ input.fn = "build_coverage_index"
    /\ ~output.returned
    /\ output' = Result(
         LET index == build_coverage_index(input.coverage_blocks)
         IN  [index |-> index,
              coverage |-> [L \in QueryLines |-> get_line_coverage(index, L)],
              hit_count |-> [L \in QueryLines |-> get_line_hit_count(index, L)]])
    /\ UNCHANGED <<input, mainVars, treeVars, apiVars>>

(***************************************************************************)
(* The diff coverage summary (diff_coverage.py,                            *)
(* generate_diff_coverage_summary).  The rate is kept as the exact         *)
(* fraction num/den in lowest terms; 0.0 is 0/1.                           *)
(***************************************************************************)
RECURSIVE Gcd(_, _)
Gcd(a, b) == IF b = 0 THEN a ELSE Gcd(b, a % b)

\* the fraction n/d, d > 0, in lowest terms
Fraction(n, d) == [num |-> n \div Gcd(n, d), den |-> d \div Gcd(n, d)]

\* the totals after the file results from position k on are added
RECURSIVE SumFrom(_, _, _)
SumFrom(file_results, k, acc) ==
    IF k > Len(file_results) THEN acc
    ELSE LET file_result == file_results[k]
         IN  SumFrom(file_results, k + 1,
                 [total_new_lines |-> acc.total_new_lines + Len(file_result.lines),
                  new_uncovered_lines |->
                      acc.new_uncovered_lines + file_result.new_uncovered_count,
                  new_covered_lines |->
                      acc.new_covered_lines + file_result.new_covered_count,
                  coverage_degraded_lines |->
                      acc.coverage_degraded_lines + file_result.coverage_degraded_count,
                  coverage_improved_lines |->
                      acc.coverage_improved_lines + file_result.coverage_improved_count])

CoverableLines_All(sums) == sums.total_new_lines + sums.new_uncovered_lines

\* total_coverable_lines
CoverableLines(sums) == sums.new_covered_lines + sums.new_uncovered_lines

generate_diff_coverage_summary(file_results) ==
    LET sums == SumFrom(file_results, 1,
                    [total_new_lines |-> 0, new_uncovered_lines |-> 0,
                     new_covered_lines |-> 0, coverage_degraded_lines |-> 0,
                     coverage_improved_lines |-> 0])
        total_coverable_lines == CoverableLines(sums)
    IN  [total_files |-> Len(file_results),
         total_new_lines |-> sums.total_new_lines,
         new_uncovered_lines |-> sums.new_uncovered_lines,
         new_covered_lines |-> sums.new_covered_lines,
         coverage_degraded_lines |-> sums.coverage_degraded_lines,
         coverage_improved_lines |-> sums.coverage_improved_lines,
         incremental_coverage_rate |->
             IF total_coverable_lines > 0
             THEN Fraction(sums.new_covered_lines * 100, total_coverable_lines)
             ELSE Fraction(0, 1)]

\* the largest number of files of a result list
MaxResultFiles == 3

\* the largest number of result lines of a file
MaxResultLines == 2

\* DiffCoverageStatus of a line merge_diff_and_coverage keeps
LineStatuses == {"new_covered", "new_uncovered"}

CountStatus(lines, status) == Cardinality({k \in DOMAIN lines : lines[k] = status})

\* a DiffCoverageFile as merge_diff_and_coverage builds it: its counts are
\* those of its lines
FileResults ==
    {[lines |-> ls,
      new_uncovered_count |-> CountStatus(ls, "new_uncovered"),
      new_covered_count |-> CountStatus(ls, "new_covered"),
      coverage_degraded_count |-> 0,
      coverage_improved_count |-> 0] :
       ls \in UNION {[1..n -> LineStatuses] : n \in 0..MaxResultLines}}

SummaryInputs ==
    {[fn |-> "generate_diff_coverage_summary", file_results |-> fs] :
       fs \in UNION {[1..n -> FileResults] : n \in 0..MaxResultFiles}}

Summarize ==
    /\ input.fn = "generate_diff_coverage_summary"
    /\ ~output.returned
    /\ output' = Result(generate_diff_coverage_summary(input.file_results))
    /\ UNCHANGED <<input, mainVars, treeVars, apiVars>>

(***************************************************************************)
(* Diff and coverage merged per file (diff_coverage.py,                    *)
(* merge_diff_and_coverage)                                                *)
(***************************************************************************)
\* sorted(...) of a finite set of integers
RECURSIVE Sorted(_)
Sorted(S) ==
    IF S = {} THEN <<>>
    ELSE LET least == CHOOSE x \in S : \A y \in S : x <= y
         IN  <<least>> \o Sorted(S \ {least})

\* the keys of file_to_hunks in insertion order: the position of the first
\* hunk of each file
FirstHunks(diff_hunks) ==
    {k \in DOMAIN diff_hunks :
       \A j \in 1..(k - 1) : diff_hunks[j].file_path # diff_hunks[k].file_path}

\* variant: a line without coverage data is emitted as uncovered
RECURSIVE MergeLines_KeepUnknown(_, _)
MergeLines_KeepUnknown(line_nums, new_coverage_index) ==
    IF line_nums = <<>> THEN <<>>
    ELSE LET line_num == Head(line_nums)
             new_covered == get_line_coverage(new_coverage_index, line_num)
         IN  <<[line_number |-> line_num,
                status |-> IF new_covered = True THEN "new_covered"
                           ELSE "new_uncovered",
                hit_count |-> get_line_hit_count(new_coverage_index, line_num),
                is_new |-> TRUE]>>
               \o MergeLines_KeepUnknown(Tail(line_nums), new_coverage_index)

\* the result lines of one file: the added lines in rising order, a line
\* without coverage data left out
RECURSIVE MergeLines(_, _)
MergeLines(line_nums, new_coverage_index) ==
    IF line_nums = <<>> THEN <<>>
    ELSE LET line_num == Head(line_nums)
             new_covered == get_line_coverage(new_coverage_index, line_num)
             hit_count == get_line_hit_count(new_coverage_index, line_num)
             rest == MergeLines(Tail(line_nums), new_coverage_index)
         IN  IF new_covered = None THEN rest
             ELSE <<[line_number |-> line_num,
                     status |-> IF new_covered = True THEN "new_covered"
                                ELSE "new_uncovered",
                     hit_count |-> hit_count,
                     is_new |-> TRUE]>> \o rest

CountLines(lines, status) ==
    Cardinality({k \in DOMAIN lines : lines[k].status = status})

\* the DiffCoverageFile of one file
MergeFile(file_path, diff_hunks, new_coverage_index) ==
    LET all_added_lines ==
            UNION {{diff_hunks[k].added_lines[a] : a \in DOMAIN diff_hunks[k].added_lines} :
                     k \in {j \in DOMAIN diff_hunks : diff_hunks[j].file_path = file_path}}
        lines == MergeLines(Sorted(all_added_lines), new_coverage_index)
    IN  [file_path |-> file_path,
         lines |-> lines,
         new_uncovered_count |-> CountLines(lines, "new_uncovered"),
         new_covered_count |-> CountLines(lines, "new_covered"),
         coverage_degraded_count |-> CountLines(lines, "coverage_degraded"),
         coverage_improved_count |-> CountLines(lines, "coverage_improved")]

\* old_coverage_index is not used by the code
merge_diff_and_coverage(diff_hunks, new_coverage_index, old_coverage_index) ==
    LET first == Sorted(FirstHunks(diff_hunks))
    IN  [k \in DOMAIN first |->
           MergeFile(diff_hunks[first[k]].file_path, diff_hunks, new_coverage_index)]

\* a hunk as the parser returns it for the added lines given
HunkOf(file_path, added_lines) ==
    [file_path |-> file_path,
     old_start |-> IF added_lines = <<>> THEN 1 ELSE Head(added_lines) - 1,
     old_count |-> 0,
     new_start |-> IF added_lines = <<>> THEN 1 ELSE Head(added_lines),
     new_count |-> Len(added_lines),
     added_lines |-> added_lines,
     deleted_lines |-> <<>>,
     modified_lines |-> <<>>]

\* hunk lists: no hunk, hunks of one file (one line in two of them), hunks of
\* two files
MergeHunkLists ==
    { <<>>,
      <<HunkOf(<<"f">>, <<1, 2>>)>>,
      <<HunkOf(<<"f">>, <<1, 2>>), HunkOf(<<"f">>, <<2, 3>>)>>,
      <<HunkOf(<<"f">>, <<1>>), HunkOf(<<"f">>, <<3>>)>>,
      <<HunkOf(<<"f">>, <<2, 3>>), HunkOf(<<"g">>, <<1>>)>>,
      <<HunkOf(<<"g">>, <<3>>), HunkOf(<<"f">>, <<1>>), HunkOf(<<"g">>, <<1, 2>>)>> }

\* blocks whose range holds at least one line, never run or run
MergeBlocks ==
    {b \in CoverageBlocks : b.start_line <= b.end_line /\ b.hit \in {0, 3}}

\* the largest number of blocks added to a block list
MaxMoreBlocks == 1

MergeInputs ==
    {[fn |-> "merge_diff_and_coverage", diff_hunks |-> hs,
      coverage_blocks |-> bs, more_blocks |-> ms] :
       hs \in MergeHunkLists,
       bs \in UNION {[1..n -> MergeBlocks] : n \in 0..MaxBlocks},
       ms \in UNION {[1..n -> {b \in MergeBlocks : b.hit > 0}] : n \in 1..MaxMoreBlocks}}

\* merge_diff_and_coverage for a block list, and for that list with the
\* further blocks added to it
MergeMore ==
    /\ input.fn = "merge_diff_and_coverage"
    /\ ~output.returned
    /\ output' = Result(
         [before |-> merge_diff_and_coverage(input.diff_hunks,
                         build_coverage_index(input.coverage_blocks), None),
          after |-> merge_diff_and_coverage(input.diff_hunks,
                        build_coverage_index(input.coverage_blocks \o input.more_blocks),
                        None)])
    /\ UNCHANGED <<input, mainVars, treeVars, apiVars>>

(***************************************************************************)
(* The goc text of a mapping of file paths to blocks, as the docstring of  *)
(* parse_goc_coverage describes it:                                        *)
(* <file>:<startLine>.<startCol>,<endLine>.<endCol> <statements> <count>   *)
(***************************************************************************)
DigitChar(d) ==
    CASE d = 0 -> "0" [] d = 1 -> "1" [] d = 2 -> "2" [] d = 3 -> "3"
      [] d = 4 -> "4" [] d = 5 -> "5" [] d = 6 -> "6" [] d = 7 -> "7"
      [] d = 8 -> "8" [] d = 9 -> "9"

\* the decimal text of a natural number
RECURSIVE TextOfInt(_)
TextOfInt(n) ==
    IF n < 10 THEN <<DigitChar(n)>>
    ELSE TextOfInt(n \div 10) \o <<DigitChar(n % 10)>>

FormatBlock(file_path, b) ==
    file_path \o <<":">> \o TextOfInt(b.start_line) \o <<".">> \o TextOfInt(b.start_col)
        \o <<",">> \o TextOfInt(b.end_line) \o <<".">> \o TextOfInt(b.end_col)
        \o <<" ">> \o TextOfInt(b.statements) \o <<" ">> \o TextOfInt(b.hit)

RECURSIVE FormatLines(_)
FormatLines(mapping) ==
    IF mapping = <<>> THEN <<>>
    ELSE [j \in 1..Len(Head(mapping).ranges) |->
            FormatBlock(Head(mapping).file_path, Head(mapping).ranges[j])]
           \o FormatLines(Tail(mapping))

FormatTrace(mapping, with_mode) ==
    JoinLines((IF with_mode THEN <<ModePrefix \o <<" ", "c", "o", "u", "n", "t">>>>
               ELSE <<>>) \o FormatLines(mapping))

\* the largest number of file paths of a trace
MaxTraceFiles == 2

\* the largest number of blocks of a file path
MaxTraceBlocks == 2

\* file paths: plain, with a colon (a drive letter), with a blank
TracePaths ==
    {<<"f", ".", "g", "o">>, <<"C", ":", "/", "x", ".", "g", "o">>,
     <<"m", "y", " ", "f", ".", "g", "o">>}

TraceBlocks ==
    {[start_line |-> 1, start_col |-> 1, end_line |-> 2, end_col |-> 2,
      statements |-> 3, hit |-> 1],
     [start_line |-> 10, start_col |-> 0, end_line |-> 12, end_col |-> 25,
      statements |-> 2, hit |-> 0],
     [start_line |-> 3, start_col |-> 7, end_line |-> 3, end_col |-> 40,
      statements |-> 1, hit |-> 107]}

\* mappings: distinct paths, in dict order, each with at least one block
TraceMappings ==
    {m \in UNION {[1..n -> [file_path : TracePaths,
                            ranges : UNION {[1..k -> TraceBlocks] :
                                              k \in 1..MaxTraceBlocks}]] :
                    n \in 1..MaxTraceFiles} :
       \A a, b \in DOMAIN m : a # b => m[a].file_path # m[b].file_path}

TraceInputs ==
    {[fn |-> "parse_goc_coverage", mapping |-> m, with_mode |-> wm,
      raw |-> FormatTrace(m, wm)] : m \in TraceMappings, wm \in BOOLEAN}

ParseTrace ==
    /\ input.fn = "parse_goc_coverage"
    /\ ~output.returned
    /\ output' = Result(parse_goc_coverage(input.raw))
    /\ UNCHANGED <<input, mainVars, treeVars, apiVars>>

(***************************************************************************)
(* manager/repo_manager.py: fetch_commit.  env holds what each step gives  *)
(* when it is run: a git command ends with return code 0 ("ok"), with      *)
(* another return code ("fail"), or runs into its timeout ("timeout").     *)
(***************************************************************************)
GitResults == {"ok", "fail", "timeout"}

\* one subprocess.run of fetch_commit, with what it gave
Ran(cmd, result) == [cmd |-> cmd, result |-> result]

\* what fetch_commit returns, with the git commands it has run
Returns(value, calls) == [value |-> value, calls |-> calls]

\* variant: the commit is taken to be there once a fetch went through
StillAbsent_Never(result) == FALSE

\* the last `if result.returncode == 0: ... else: return False`
StillAbsent(result) == result # "ok"

\* the part of fetch_commit after the first probe found the commit absent
FetchAndProbe(env, calls) ==
    LET byHash == Append(calls, Ran("fetch origin <commit>", env.fetch_commit))
        all == Append(byHash, Ran("fetch origin", env.fetch_all))
        fetched == IF env.fetch_commit = "ok" THEN byHash ELSE all
        probed == Append(fetched, Ran("cat-file -e", env.probe_again))
    IN  IF env.fetch_commit = "timeout" THEN Returns(FALSE, byHash)
        ELSE IF env.fetch_commit = "fail" /\ env.fetch_all # "ok"
        THEN Returns(FALSE, all)
        ELSE IF env.probe_again = "timeout" THEN Returns(FALSE, probed)
        ELSE Returns(~StillAbsent(env.probe_again), probed)

fetch_commit(env) ==
    LET shown == <<Ran("remote get-url", env.get_url)>>
        probed == Append(shown, Ran("cat-file -e", env.probe))
    IN  IF ~env.ensure_remote_url THEN Returns(FALSE, <<>>)
        ELSE IF env.get_url = "timeout" THEN Returns(FALSE, shown)
        ELSE IF env.get_url = "ok" /\ env.remote_is_ssh THEN Returns(FALSE, shown)
        ELSE IF env.probe = "timeout" THEN Returns(FALSE, probed)
        ELSE IF env.probe = "ok" THEN Returns(TRUE, probed)
        ELSE FetchAndProbe(env, probed)

FetchInputs ==
    {[fn |-> "fetch_commit", env |-> e] :
       e \in [ensure_remote_url : BOOLEAN, get_url : GitResults,
              remote_is_ssh : BOOLEAN, probe : GitResults,
              fetch_commit : GitResults, fetch_all : GitResults,
              probe_again : GitResults]}

FetchCommit ==
    /\ input.fn = "fetch_commit"
    /\ ~output.returned
    /\ output' = Result(fetch_commit(input.env))
    /\ UNCHANGED <<input, mainVars, treeVars, apiVars>>

(***************************************************************************)
(* manager/diff_manager.py: convert_module_path_to_fs_path and the lookup  *)
(* of the stored File in get_coverage_blocks_for_file.  Paths are          *)
(* sequences of characters; module_mapping is the dict that                *)
(* find_go_module_mapping returned, as the sequence of its items.          *)
(***************************************************************************)
\* variant: the module name only has to be a prefix of the path
ModuleMatches_AnyPrefix(module_path, module_name) ==
    StrStartsWith(module_path, module_name)

\* module_path.startswith(module_name + '/') or module_path == module_name
ModuleMatches(module_path, module_name) ==
    \/ StrStartsWith(module_path, module_name \o <<"/">>)
    \/ module_path = module_name

\* the fs_path appended for one matching item of module_mapping
FsPath(module_path, module_name, fs_prefix) ==
    LET relative_path ==
            IF module_path = module_name THEN <<>>
            ELSE SubSeq(module_path, Len(module_name) + 2, Len(module_path))
    IN  IF fs_prefix # <<>> THEN fs_prefix \o relative_path ELSE relative_path

convert_module_path_to_fs_path(module_path, module_mapping) ==
    LET matching == SelectSeq(module_mapping,
                        LAMBDA item : ModuleMatches(module_path, item.module_name))
        possible_paths ==
            [k \in DOMAIN matching |->
               FsPath(module_path, matching[k].module_name, matching[k].fs_prefix)]
    IN  IF possible_paths = <<>> THEN <<module_path>> ELSE possible_paths

InSeq(x, s) == \E k \in DOMAIN s : s[k] = x

\* the File that get_coverage_blocks_for_file reads the ranges of: all_files
\* holds the stored paths of the (repo_id, branch) in the order of the query
\* result, the answer is a position in it, 0 when `if not file:` holds
StoredFileFor(file_path, all_files, worktree_exists, module_mapping) ==
    LET exact == {k \in DOMAIN all_files : all_files[k] = file_path}
        converted ==
            {k \in DOMAIN all_files :
               InSeq(file_path, convert_module_path_to_fs_path(all_files[k], module_mapping))}
    IN  IF exact # {} THEN {k : k \in exact}
        ELSE IF worktree_exists /\ converted # {}
        THEN {CHOOSE k \in converted : \A j \in converted : k <= j}
        ELSE {0}

ModuleItems ==
    {[module_name |-> <<"p">>, fs_prefix |-> <<>>],
     [module_name |-> <<"p">>, fs_prefix |-> <<"b", "/">>],
     [module_name |-> <<"p", "/", "s">>, fs_prefix |-> <<"s", "/">>],
     [module_name |-> <<"q">>, fs_prefix |-> <<"b", "/">>]}

\* the largest number of go.mod files in a worktree
MaxModules == 2

\* dicts of up to MaxModules modules, in every order of their items
ModuleMappings ==
    UNION {{m \in [1..n -> ModuleItems] :
              \A i, j \in 1..n : i # j => m[i].module_name # m[j].module_name} :
             n \in 0..MaxModules}

StoredPaths ==
    {<<"p", "/", "a">>, <<"p", "/", "s", "/", "a">>, <<"p">>, <<"p", "x", "a">>,
     <<"q", "/", "a">>}

\* the largest number of stored Files of a (repo_id, branch)
MaxStoredFiles == 2

StoredLists ==
    UNION {{fs \in [1..n -> StoredPaths] : \A i, j \in 1..n : i # j => fs[i] # fs[j]} :
             n \in 0..MaxStoredFiles}

DiffFilePaths ==
    {<<"a">>, <<"b", "/", "a">>, <<"s", "/", "a">>, <<"b", "/">>, <<"p", "/", "a">>}

ReconcileInputs ==
    {[fn |-> "get_coverage_blocks_for_file", file_path |-> d, all_files |-> fs,
      worktree_exists |-> w, module_mapping |-> m] :
       d \in DiffFilePaths, fs \in StoredLists, w \in BOOLEAN, m \in ModuleMappings}

\* the lookup of the stored File of a diff path
Reconcile ==
    /\ input.fn = "get_coverage_blocks_for_file"
    /\ ~output.returned
    /\ \E file \in StoredFileFor(input.file_path, input.all_files,
                                 input.worktree_exists, input.module_mapping) :
         output' = Result(file)
    /\ UNCHANGED <<input, mainVars, treeVars, apiVars>>

\* no function is being applied
PureQuiet ==
    /\ input = [fn |-> None]
    /\ output = NoResult

(***************************************************************************)
(* coverage-api/main.py: get_diff_coverage and update_report_base_commit,  *)
(* with calculate_diff_coverage and update_base_commit_for_report of       *)
(* manager/diff_manager.py.  The API process serves one request at a time; *)
(* the worker processes run beside it.                                     *)
(***************************************************************************)
\* the largest number of requests the API serves
MaxRequests == 1

\* the API process between two requests, before the first one
ApiQuiet ==
    api = [pc |-> "idle", served |-> 0, route |-> "", report_id |-> 0,
           loaded |-> <<>>, base_branch |-> "", attached |-> FALSE,
           git |-> <<>>, response |-> <<>>]

\* db.close() in the `finally:` of a helper: get_db_session() gives every
\* caller of one thread the same Session of the scoped_session, and close()
\* expunges the objects the request handler has loaded
SessionClose(attached) == FALSE

\* CoverageBlock(start_line=r.start_line, ...) of a Range row
CoverageBlock(r) ==
    [start_line |-> r.start_line, start_col |-> r.start_col,
     end_line |-> r.end_line, end_col |-> r.end_col,
     statements |-> r.statements, hit |-> r.hit]

\* the blocks of the Range rows given, a row taken as often as it is stored
RECURSIVE BlockList(_, _)
BlockList(rg, rows) ==
    IF rows = {} THEN <<>>
    ELSE LET r == CHOOSE x \in rows : TRUE
         IN  [k \in 1..rg[r] |-> CoverageBlock(r)] \o BlockList(rg, rows \ {r})

\* get_coverage_blocks_for_file in a worktree without go.mod: sel holds, per
\* stored path, the File row that .first() gives; a path that is not stored
\* has no blocks (StoredFileFor is the lookup with module paths)
get_coverage_blocks_for_file(sel, file_path) ==
    IF file_path \notin DOMAIN sel THEN <<>>
    ELSE BlockList(ranges, {x \in DOMAIN ranges : x.file_id = sel[file_path].id})

\* the loop over file_to_hunks.items(): keys are the positions of the first
\* hunk of each file, in insertion order
RECURSIVE FileResultsFrom(_, _, _)
FileResultsFrom(keys, diff_hunks, sel) ==
    IF keys = <<>> THEN <<>>
    ELSE LET file_path == diff_hunks[Head(keys)].file_path
             hunks == SelectSeq(diff_hunks, LAMBDA h : h.file_path = file_path)
             target_blocks == get_coverage_blocks_for_file(sel, file_path)
             target_coverage_index ==
                 [build_coverage_index(target_blocks) EXCEPT !.file_path = file_path]
             rest == FileResultsFrom(Tail(keys), diff_hunks, sel)
         IN  IF target_blocks = <<>> THEN rest
             ELSE merge_diff_and_coverage(hunks, target_coverage_index, None) \o rest

\* the summary of the branch `if not diff_hunks:`
ZeroSummary ==
    [total_files |-> 0, total_new_lines |-> 0, new_uncovered_lines |-> 0,
     new_covered_lines |-> 0, coverage_degraded_lines |-> 0,
     coverage_improved_lines |-> 0, incremental_coverage_rate |-> Fraction(0, 1)]

\* calculate_diff_coverage: <<>> is None; base_commit is what
\* get_base_commit_from_git gave and diff_hunks what parse_git_diff gave
calculate_diff_coverage(base_branch, base_commit, diff_hunks, sel) ==
    IF base_commit = None THEN <<>>
    ELSE IF diff_hunks = <<>>
    THEN <<[files |-> <<>>, summary |-> ZeroSummary,
            base_commit |-> base_commit, base_branch |-> base_branch]>>
    ELSE LET file_results ==
                 FileResultsFrom(Sorted(FirstHunks(diff_hunks)), diff_hunks, sel)
         IN  <<[files |-> file_results,
                summary |-> generate_diff_coverage_summary(file_results),
                base_commit |-> base_commit, base_branch |-> base_branch]>>

\* the UPDATE the session emits for an attached row: the columns whose value
\* differs from the loaded one
UpdateRow(cur, loaded, new) ==
    [f \in DOMAIN cur |-> IF new[f] # loaded[f] THEN new[f] ELSE cur[f]]

\* variant: the time of the write is not taken
WriteBack_NoTime(report, base_commit, base_branch, now) ==
    [report EXCEPT !.base_commit = base_commit,
                   !.base_branch = base_branch,
                   !.updated_at = 0]

\* report.base_commit = ...; report.base_branch = ...; report.updated_at = now
WriteBack(report, base_commit, base_branch, now) ==
    [report EXCEPT !.base_commit = base_commit,
                   !.base_branch = base_branch,
                   !.updated_at = now]

\* db.commit() of the request handler: an attached Report is written, a
\* detached one is not
CommitReport(rs, attached, loaded, new) ==
    IF attached
    THEN {IF r.id = new.id THEN UpdateRow(r, loaded, new) ELSE r : r \in rs}
    ELSE rs

\* what parse_git_diff returns: the hunks of the diff, [] when git diff fails
parse_git_diff(diff_ok, hunks) == IF diff_ok THEN hunks ELSE <<>>

\* the diffs between a base commit and a target commit: no hunk, or one hunk
\* per changed file
ApiDiffs ==
    {hs \in MergeHunkLists : Cardinality(FirstHunks(hs)) = Len(hs)}

Respond(status, body) == <<[status |-> status, body |-> body]>>

\* get_diff_coverage up to the call of calculate_diff_coverage: the Report and
\* the Config are loaded and the base branch is settled
ApiBegin ==
    /\ api.pc = "idle"
    /\ api.served < MaxRequests
    /\ \E report_id \in 1..nextReportId, base_branch_arg \in {"", "main"} :
         LET found == {r \in reports : r.id = report_id}
             request == [api EXCEPT !.served = api.served + 1,
                                    !.route = "diff",
                                    !.report_id = report_id,
                                    !.git = <<>>]
         IN  IF found = {}
             THEN api' = [request EXCEPT
                            !.loaded = <<>>, !.attached = FALSE,
                            !.response = Respond(404, [error |-> "Report not found"])]
             ELSE \E report \in found : \E cfg \in ConfigLookup(report.repo_id) :
                    IF cfg = <<>>
                    THEN api' = [request EXCEPT
                                   !.loaded = <<report>>, !.attached = TRUE,
                                   !.response =
                                       Respond(404, [error |-> "Config not found for this repo"])]
                    ELSE api' = [request EXCEPT
                                   !.pc = "loaded",
                                   !.loaded = <<report>>,
                                   !.base_branch =
                                       IF base_branch_arg # "" THEN base_branch_arg
                                       ELSE get_base_branch_for_repo(report.repo_id),
                                   !.attached =
                                       IF base_branch_arg # "" THEN TRUE
                                       ELSE SessionClose(TRUE),
                                   !.response = <<>>]
    /\ UNCHANGED <<mainVars, treeVars, pureVars>>

\* get_diff_coverage from the call of calculate_diff_coverage on
\* (git diff runs only when the base commit was resolved)
ApiRespond ==
    /\ api.pc = "loaded"
    /\ LET report == api.loaded[1]
       IN  \E base_commit \in get_base_commit_from_git(api.base_branch, report.commit),
              diff_ok \in BOOLEAN,
              hunks \in ApiDiffs,
              sel \in ExistingFileMaps(report.repo_id, report.branch) :
             LET diff_hunks == parse_git_diff(diff_ok, hunks)
                 diff_result ==
                     calculate_diff_coverage(api.base_branch, base_commit, diff_hunks, sel)
                 attached == IF base_commit # None /\ diff_hunks # <<>>
                             THEN SessionClose(api.attached) ELSE api.attached
                 git == <<[base_commit |-> base_commit, diff_ok |-> diff_ok]>>
             IN  /\ diff_ok \/ hunks = <<>>
                 /\ base_commit = None => diff_ok /\ hunks = <<>>
                 /\ IF diff_result = <<>>
                    THEN /\ api' = [api EXCEPT
                                      !.pc = "idle", !.git = git,
                                      !.response =
                                          Respond(500, [error |-> "Failed to calculate diff coverage"])]
                         /\ UNCHANGED <<reports, clock>>
                    ELSE /\ api' = [api EXCEPT
                                      !.pc = "idle", !.git = git, !.attached = attached,
                                      !.response =
                                          Respond(200,
                                              [report_id |-> api.report_id,
                                               target_commit |-> report.commit,
                                               base_commit |-> diff_result[1].base_commit,
                                               base_branch |-> diff_result[1].base_branch,
                                               files |-> diff_result[1].files,
                                               summary |-> diff_result[1].summary])]
                         /\ IF report.base_commit = ""
                            THEN /\ reports' =
                                      CommitReport(reports, attached, report,
                                          WriteBack(report, diff_result[1].base_commit,
                                                    diff_result[1].base_branch, clock))
                                 /\ clock' = clock + 1
                            ELSE UNCHANGED <<reports, clock>>
    /\ UNCHANGED <<queue, worker, config, files, ranges, worktrees, nextReportId,
                   nextFileId, faults, hist>>
    /\ UNCHANGED <<treeVars, pureVars>>

\* update_report_base_commit with update_base_commit_for_report: the Report is
\* loaded, get_base_branch_for_repo closes the session, the base commit is
\* resolved and assigned, and db.commit() follows
UpdateBaseCommit ==
    /\ api.pc = "idle"
    /\ api.served < MaxRequests
    /\ \E report_id \in 1..nextReportId :
         LET found == {r \in reports : r.id = report_id}
             request == [api EXCEPT !.served = api.served + 1,
                                    !.route = "base-commit",
                                    !.report_id = report_id,
                                    !.base_branch = "",
                                    !.git = <<>>]
             failed == Respond(500, [error |-> "Failed to update base commit"])
         IN  IF found = {}
             THEN /\ api' = [request EXCEPT !.loaded = <<>>, !.attached = FALSE,
                                            !.response = failed]
                  /\ UNCHANGED <<reports, clock>>
             ELSE \E report \in found :
                    LET base_branch == get_base_branch_for_repo(report.repo_id)
                        attached == SessionClose(TRUE)
                    IN  \E base_commit \in get_base_commit_from_git(base_branch, report.commit) :
                          LET served == [request EXCEPT
                                           !.loaded = <<report>>,
                                           !.attached = attached,
                                           !.base_branch = base_branch,
                                           !.git = <<[base_commit |-> base_commit,
                                                      diff_ok |-> TRUE]>>]
                          IN  IF base_commit = None
                              THEN /\ api' = [served EXCEPT !.response = failed]
                                   /\ UNCHANGED <<reports, clock>>
                              ELSE /\ api' = [served EXCEPT
                                                !.response =
                                                    Respond(200, [success |-> TRUE,
                                                                  report_id |-> report_id])]
                                   /\ reports' =
                                        CommitReport(reports, attached, report,
                                            WriteBack(report, base_commit, base_branch, clock))
                                   /\ clock' = clock + 1
    /\ UNCHANGED <<queue, worker, config, files, ranges, worktrees, nextReportId,
                   nextFileId, faults, hist>>
    /\ UNCHANGED <<treeVars, pureVars>>

(***************************************************************************)
(* manager/repo_manager.py: where a repository and its trees are cached    *)
(***************************************************************************)
\* str.rstrip('/')
StrRStripSlash(s) ==
    LET keep == {i \in 1..Len(s) : s[i] # "/"}
    IN  IF keep = {} THEN <<>>
        ELSE SubSeq(s, 1, CHOOSE i \in keep : \A j \in keep : i >= j)

\* str.endswith(suffix)
StrEndsWith(s, suffix) ==
    /\ Len(s) >= Len(suffix)
    /\ SubSeq(s, Len(s) - Len(suffix) + 1, Len(s)) = suffix

\* str.replace(':', '/', 1)
ReplaceFirstColon(s) ==
    LET hits == {i \in 1..Len(s) : s[i] = ":"}
    IN  IF hits = {} THEN s
        ELSE [i \in 1..Len(s) |->
                IF i = (CHOOSE k \in hits : \A j \in hits : k <= j) THEN "/" ELSE s[i]]

DropFirst(s, n) == SubSeq(s, n + 1, Len(s))

\* the canonical project path P(U) of a repository URL
extract_project_name(repo_url) ==
    LET a == StrRStripSlash(repo_url)
        b == IF StrEndsWith(a, <<".", "g", "i", "t">>) THEN SubSeq(a, 1, Len(a) - 4) ELSE a
        c == IF StrStartsWith(b, <<"g", "i", "t", "@">>)
             THEN ReplaceFirstColon(DropFirst(b, 4))
             ELSE IF StrStartsWith(b, <<"h", "t", "t", "p", ":", "/", "/">>) THEN DropFirst(b, 7)
             ELSE IF StrStartsWith(b, <<"h", "t", "t", "p", "s", ":", "/", "/">>) THEN DropFirst(b, 8)
             ELSE IF StrStartsWith(b, <<"g", "i", "t", ":", "/", "/">>) THEN DropFirst(b, 6)
             ELSE b
    IN  StrRStripSlash(c)

REPOS_BASE_DIR == <<"/", "a", "p", "p", "/", "r", "e", "p", "o", "s">>

\* os.path.join(a, b)
PathJoin(a, b) ==
    IF b # <<>> /\ b[1] = "/" THEN b
    ELSE IF a = <<>> \/ a[Len(a)] = "/" THEN a \o b
    ELSE a \o <<"/">> \o b

get_repo_dir(repo_url) == PathJoin(REPOS_BASE_DIR, extract_project_name(repo_url))

\* .../worktrees/<commit>; the commit is the last segment, kept whole
get_worktree_dir(repo_url, commit) ==
    PathJoin(PathJoin(get_repo_dir(repo_url), <<"w", "o", "r", "k", "t", "r", "e", "e", "s">>), <<commit>>)

\* the tree ingestion materializes for the target commit of a message:
\* clone_or_update_repo(msg.repo, msg.repo_id, msg.branch, msg.commit)
IngestionTreeDir(msg) == get_worktree_dir(UrlText(msg.repo), msg.commit)

\* the tree the diff-coverage service consults for a Report: the URL is the
\* repo_url of the Config row of the Report's repo_id, the commit the Report's
DiffServiceTreeDir(report) ==
    LET cfg == CHOOSE c \in config : c.repo_id = report.repo_id
    IN  get_worktree_dir(UrlText(cfg.repo_url), report.commit)

(***************************************************************************)
(* Specifications                                                          *)
(***************************************************************************)
\* what CI jobs publish: every body without headers, and the bodies that fail
\* in the three ways the callback distinguishes with every choice of headers
Published ==
    (BodyIds \X {<<>>}) \cup ({"badjson", "array", "unsup"} \X HeaderChoices)

\* the messages that reach process_coverage_report; the one with an
\* unsupported format arrives on its last retry, so that its lineage is short
PublishedAdmitted ==
    ({"unknown", "ok1", "ok2", "ok3"} \X {<<>>})
        \cup {<<"unsup", <<[k \in {"x-retry-count"} |-> IntVal(9)]>> >>}

\* the state after start-up with up to `most` messages published, of those given
InitUpTo(published, most) ==
    /\ \E n \in 1..most :
       \E pub \in [1..n -> published] :
         /\ queue = [i \in 1..n |->
                       [lin |-> i, body |-> pub[i][1], headers |-> pub[i][2]]]
         /\ hist = [i \in 1..n |->
                      [body |-> pub[i][1], headers |-> pub[i][2],
                       deliveries |-> 0, invoked |-> 0, raisedIn |-> 0,
                       matCalls |-> 0, crashes |-> 0,
                       republished |-> <<>>, acts |-> <<>>]]
    /\ worker = [w \in Workers |-> Idle]
    /\ config = ConfigRows
    /\ reports = {}
    /\ files = {}
    /\ ranges = EmptyBag
    /\ worktrees = {}
    /\ nextReportId = 1
    /\ nextFileId = 1
    /\ clock = 1
    /\ faults = 0
    /\ TreeQuiet
    /\ PureQuiet
    /\ ApiQuiet

InitWith(published) == InitUpTo(published, MaxMsgs)

Step(w) ==
    \/ Receive(w)
    \/ Materialize(w)
    \/ Commit(w)
    \/ FailCommit(w)
    \/ StoreError(w)
    \/ Crash(w)

\* N worker processes consume the same queue (here two)
Init == InitWith(PublishedAdmitted)

Next ==
    \/ \E w \in Workers : Step(w)
    \/ SetBaseBranch

Spec == Init /\ [][Next]_vars

\* one worker process: deliveries are handled one after the other
InitSeq == InitWith(Published)

NextSeq == Step("w1")

SpecSeq == InitSeq /\ [][NextSeq]_vars

\* the admitted messages with a supported format: three the parser accepts
\* and one it raises on
PublishedSupported == {"ok1", "ok2", "ok3", "badraw"} \X {<<>>}

\* one worker process ingesting messages of supported formats
InitAtomic == InitWith(PublishedSupported)

NextAtomic == Step("w1")

SpecAtomic == InitAtomic /\ [][NextAtomic]_vars

\* messages of two (repo_id, branch) keys: ok3 (files g and f), ok2 (file f)
\* and one of an unsupported format on its last retry for branch main, ok4
\* (file f) for branch dev
PublishedKeys ==
    ({"ok2", "ok3", "ok4"} \X {<<>>})
        \cup {<<"unsup", <<[k \in {"x-retry-count"} |-> IntVal(9)]>> >>}

MaxKeyMsgs == 3

\* one worker process ingesting up to three messages of two keys
InitKeys == InitUpTo(PublishedKeys, MaxKeyMsgs)

NextKeys == Step("w1")

SpecKeys == InitKeys /\ [][NextKeys]_vars

\* messages of one repo_id that name the repository by different URLs, and
\* one of an unsupported format on its last retry
PublishedUrls ==
    ({"ok1", "ok5", "ok6"} \X {<<>>})
        \cup {<<"unsup", <<[k \in {"x-retry-count"} |-> IntVal(9)]>> >>}

\* one worker process ingesting messages that name the repository differently
InitUrls == InitWith(PublishedUrls)

NextUrls == Step("w1")

SpecUrls == InitUrls /\ [][NextUrls]_vars

\* one worker process that a shutdown signal may reach at any time
InitStop == InitWith(PublishedAdmitted)

NextStop ==
    \/ Step("w1")
    \/ Signal("w1")

SpecStop == InitStop /\ [][NextStop]_vars

\* one worker process and the API process, the configuration left as it is
\* the messages that reach the store
PublishedStored == {p \in PublishedAdmitted : p[1] # "unknown"}

InitApi == InitWith(PublishedStored)

NextApi ==
    \/ Step("w1")
    \/ ApiBegin
    \/ ApiRespond
    \/ UpdateBaseCommit

SpecApi == InitApi /\ [][NextApi]_vars

\* concurrent materializations of one commit; the directory may be there
\* from an earlier call, complete or not
InitTree ==
    /\ caller = [p \in Callers |-> NewCall]
    /\ lockHolder = 0
    /\ tree \in TreeStates
    /\ queue = <<>>
    /\ hist = <<>>
    /\ worker = [w \in Workers |-> Idle]
    /\ config = ConfigRows
    /\ reports = {}
    /\ files = {}
    /\ ranges = EmptyBag
    /\ worktrees = {}
    /\ nextReportId = 1
    /\ nextFileId = 1
    /\ clock = 1
    /\ faults = 0
    /\ PureQuiet
    /\ ApiQuiet

NextTree == \E p \in Callers : TreeStep(p)

SpecTree == InitTree /\ [][NextTree]_vars

\* the functions of diff_coverage.py, each applied to one argument
InitPure ==
    /\ input \in DiffInputs \cup IndexInputs \cup SummaryInputs \cup MergeInputs
                 \cup TraceInputs \cup FetchInputs \cup ReconcileInputs
    /\ output = NoResult
    /\ TreeQuiet
    /\ ApiQuiet
    /\ queue = <<>>
    /\ hist = <<>>
    /\ worker = [w \in Workers |-> Idle]
    /\ config = ConfigRows
    /\ reports = {}
    /\ files = {}
    /\ ranges = EmptyBag
    /\ worktrees = {}
    /\ nextReportId = 1
    /\ nextFileId = 1
    /\ clock = 1
    /\ faults = 0

NextPure ==
    \/ ParseDiff
    \/ BuildIndex
    \/ Summarize
    \/ MergeMore
    \/ ParseTrace
    \/ FetchCommit
    \/ Reconcile

SpecPure == InitPure /\ [][NextPure]_vars

(***************************************************************************)
(* Vocabulary of the properties                                            *)
(***************************************************************************)
Lineages == DOMAIN hist

\* a delivery of the message, or of a retry copy of it, is still waiting or
\* being handled
Pending(l) ==
    \/ \E i \in 1..Len(queue) : queue[i].lin = l
    \/ \E w \in Workers : worker[w].pc # "idle" /\ worker[w].d.lin = l

\* the message and all its copies have been dealt with
Finished(l) == hist[l].deliveries > 0 /\ ~Pending(l)

\* the message was published without an x-retry-count header
ArrivedWithoutRetryHeader(l) ==
    \/ hist[l].headers = <<>>
    \/ RETRY_HEADER_KEY \notin DOMAIN hist[l].headers[1]

\* every delivery handled so far ended in the `except Exception` branch, and
\* the broker accepted every retry copy
FailedEveryAttempt(l) ==
    /\ hist[l].crashes = 0
    /\ \A i \in 1..Len(hist[l].acts) : hist[l].acts[i].path \in {"retry", "exhausted"}

LastAct(l) == hist[l].acts[Len(hist[l].acts)]

\* the body cannot be decoded into a report message
Undecodable(b) ==
    \/ ~BodyOf(b).utf8
    \/ ~BodyOf(b).json
    \/ BodyOf(b).jtype # "object"

\* the repo_id of a decodable body, "" otherwise
RepoIdOf(b) ==
    IF Undecodable(b) THEN "" ELSE CoverageReportMessage(BodyOf(b).data).repo_id

FormatOf(b) ==
    DictGet(CoverageReportMessage(BodyOf(b).data).coverage, "format", "goc")

Admitted(repo_id) == \E c \in config : c.repo_id = repo_id

(***************************************************************************)
(* C1: a message that first arrives without x-retry-count and fails on     *)
(* every attempt is republished exactly 10 times, each copy with the       *)
(* original body and x-retry-count = 1, 2, ..., 10 in this order; the      *)
(* delivery that carries 10 is nacked without requeue and nothing is       *)
(* republished after it.                                                   *)
(***************************************************************************)
C1_RetryExhaustion ==
    \A l \in Lineages :
      (ArrivedWithoutRetryHeader(l) /\ FailedEveryAttempt(l)) =>
        LET rp == hist[l].republished
            acts == hist[l].acts
        IN  /\ Len(rp) <= 10
            /\ \A i \in 1..Len(rp) :
                 /\ rp[i].retry = i
                 /\ rp[i].headers[RETRY_HEADER_KEY] = IntVal(i)
                 /\ rp[i].body = hist[l].body
            /\ \A i \in 1..Len(acts) :
                 IF i <= 10 THEN acts[i] = [act |-> "ack", path |-> "retry"]
                 ELSE i = 11 /\ acts[i] = [act |-> "nack", path |-> "exhausted"]
            /\ Finished(l) => (Len(rp) = 10 /\ Len(acts) = 11)

C1_Witness ==
    \E l \in Lineages :
      /\ ArrivedWithoutRetryHeader(l)
      /\ FailedEveryAttempt(l)
      /\ Finished(l)
      /\ Len(hist[l].republished) = 10
      /\ LastAct(l) = [act |-> "nack", path |-> "exhausted"]

(***************************************************************************)
(* C2 as claimed: for a message without retry header whose processing      *)
(* always fails, process_coverage_report is invoked exactly 10 times over  *)
(* the lineage before the message is dropped.                              *)
(***************************************************************************)
ProcessingAlwaysFailed(l) ==
    /\ ArrivedWithoutRetryHeader(l)
    /\ FailedEveryAttempt(l)
    /\ Finished(l)
    /\ hist[l].invoked = hist[l].deliveries
    /\ hist[l].raisedIn = hist[l].invoked

C3_UndecodableIsPoison ==
    \A l \in Lineages :
      Undecodable(hist[l].body) =>
        /\ hist[l].republished = <<>>
        /\ \A i \in 1..Len(hist[l].acts) : hist[l].acts[i].act = "nack"

(***************************************************************************)
(* C4 as claimed: a message for an admitted repo_id whose coverage.format  *)
(* is not supported is nacked without requeue and never republished.       *)
(***************************************************************************)
C4_UnsupportedIsTerminal ==
    \A l \in Lineages :
      (/\ ~Undecodable(hist[l].body)
       /\ Admitted(RepoIdOf(hist[l].body))
       /\ FormatOf(hist[l].body) \notin SupportedFormats) =>
        /\ hist[l].republished = <<>>
        /\ \A i \in 1..Len(hist[l].acts) : hist[l].acts[i].act = "nack"

(***************************************************************************)
(* Vocabulary of the store properties                                      *)
(***************************************************************************)
\* the six numeric fields of a Range row
BlockOf(x) ==
    [start_line |-> x.start_line, start_col |-> x.start_col,
     end_line |-> x.end_line, end_col |-> x.end_col,
     statements |-> x.statements, hit |-> x.hit]

RECURSIVE RowCopies(_, _)
RowCopies(rg, rows) ==
    IF rows = {} THEN 0
    ELSE LET x == CHOOSE y \in rows : TRUE
         IN  rg[x] + RowCopies(rg, rows \ {x})

\* the blocks of the Range rows of a File row, as a bag
BlocksOfFile(rg, file_id) ==
    LET rows == {x \in DOMAIN rg : x.file_id = file_id}
        blocks == {BlockOf(x) : x \in rows}
    IN  [b \in blocks |-> RowCopies(rg, {x \in rows : BlockOf(x) = b})]

\* the blocks of a parsed path, as a bag
BagOfBlocks(blocks) ==
    [b \in {blocks[i] : i \in 1..Len(blocks)} |->
        Cardinality({i \in 1..Len(blocks) : blocks[i] = b})]

\* what the trace of a message gives, parsed from the message itself
TraceOf(msg) ==
    ParseCoverage(DictGet(msg.coverage, "format", "goc"),
                  DictGet(msg.coverage, "raw", <<>>))

\* this step is the commit and ack of worker w's ingestion
CommitStep(w) ==
    /\ worker[w].pc = "cloned"
    /\ worker'[w].pc = "idle"
    /\ Len(hist'[worker[w].d.lin].acts) = Len(hist[worker[w].d.lin].acts) + 1
    /\ hist'[worker[w].d.lin].acts[Len(hist'[worker[w].d.lin].acts)].path = "ok"

\* this step handles a delivery of lineage l as an admission miss
DropStep(l) ==
    /\ Len(hist'[l].acts) = Len(hist[l].acts) + 1
    /\ hist'[l].acts[Len(hist'[l].acts)].path = "drop"

(***************************************************************************)
(* C5: when no Config row exists for the message's repo_id, processing     *)
(* leaves the store unchanged (no Report, File or Range row written),      *)
(* starts no materialization, and the delivery is acked and never          *)
(* republished.                                                            *)
(***************************************************************************)
NotAdmitted(l) ==
    /\ ~Undecodable(hist[l].body)
    /\ RepoIdOf(hist[l].body) # ""
    /\ ~Admitted(RepoIdOf(hist[l].body))

C5_NothingStored ==
    \A l \in Lineages :
      NotAdmitted(l) =>
        /\ \A r \in reports : r.repo_id # RepoIdOf(hist[l].body)
        /\ \A f \in files : f.repo_id # RepoIdOf(hist[l].body)
        /\ hist[l].matCalls = 0
        /\ hist[l].republished = <<>>
        /\ \A i \in 1..Len(hist[l].acts) :
             hist[l].acts[i] = [act |-> "ack", path |-> "drop"]
        /\ Finished(l) => Len(hist[l].acts) = 1

C5_AdmissionGate ==
    /\ []C5_NothingStored
    /\ [][\A l \in Lineages :
            (NotAdmitted(l) /\ hist'[l] # hist[l]) =>
              /\ DropStep(l)
              /\ UNCHANGED <<reports, files, ranges, worktrees>>]_vars

C5_Witness ==
    \E l \in Lineages :
      /\ NotAdmitted(l)
      /\ Finished(l)
      /\ hist[l].invoked = 1
      /\ hist[l].acts = <<[act |-> "ack", path |-> "drop"]>>

(***************************************************************************)
(* C6 as claimed: in every committed state there is at most one Report row *)
(* per (repo_id, branch), also when two workers process messages of the    *)
(* same (repo_id, branch) concurrently.                                    *)
(***************************************************************************)
C6_OneReportPerKey ==
    \A r1, r2 \in reports :
      (r1.repo_id = r2.repo_id /\ r1.branch = r2.branch) => r1 = r2

(***************************************************************************)
(* C10 as claimed: materialization of the target commit starts only after  *)
(* the transaction that stores the Report with status completed has        *)
(* committed.                                                              *)
(***************************************************************************)
C10_CommittedBeforeMaterialization ==
    \A w \in Workers :
      worker[w].pc = "cloned" =>
        \E r \in reports :
          /\ r.id = worker[w].tx.report.id
          /\ r.status = "completed"
          /\ r.commit = worker[w].tx.msg.commit
          /\ r.updated_at = worker[w].tx.ranges_timestamp

(***************************************************************************)
(* C7: a successful ingestion for a (repo_id, branch) that already has a   *)
(* Report mutates that row in place: there is still exactly one Report row *)
(* for the key, its id and created_at are unchanged, and its commit, CI    *)
(* fields, coverage_format and raw trace are those of the new message.     *)
(* The Report the ingestion loaded is the one stored when it commits.      *)
(***************************************************************************)
ReIngestionStep(w) ==
    /\ CommitStep(w)
    /\ worker[w].tx.loaded # <<>>
    /\ ReportsFor(reports, worker[w].tx.msg.repo_id, worker[w].tx.msg.branch)
         = {worker[w].tx.loaded[1]}

C7_ReIngestionInPlace ==
    [][\A w \in Workers :
         ReIngestionStep(w) =>
           LET msg == worker[w].tx.msg
               old == worker[w].tx.loaded[1]
               now == ReportsFor(reports', msg.repo_id, msg.branch)
           IN  /\ Cardinality(now) = 1
               /\ \A r \in now :
                    /\ r.id = old.id
                    /\ r.created_at = old.created_at
                    /\ r.commit = msg.commit
                    /\ r.ci_provider = DictGet(msg.ci, "provider", "")
                    /\ r.ci_pipeline_id = DictGet(msg.ci, "pipeline_id", "")
                    /\ r.ci_job_id = DictGet(msg.ci, "job_id", "")
                    /\ r.coverage_format = DictGet(msg.coverage, "format", "goc")
                    /\ r.coverage_raw = DictGet(msg.coverage, "raw", <<>>)
                    /\ r.status = "completed"
               /\ Cardinality(reports') = Cardinality(reports)]_vars

\* a second commit was ingested over the Report of the first
C7_Witness ==
    \E r \in reports :
      /\ r.status = "completed"
      /\ r.commit = "def"
      /\ r.created_at < r.updated_at
      /\ r.coverage_format = "pyca"
      /\ \E l \in Lineages : hist[l].body = "ok1" /\ Finished(l) /\ LastAct(l).path = "ok"
      /\ \E l \in Lineages : hist[l].body = "ok2" /\ Finished(l) /\ LastAct(l).path = "ok"
      /\ Cardinality(reports) = 1

(***************************************************************************)
(* C8: after a successful re-ingestion of (repo_id, branch), for every     *)
(* file path of the new trace the Range rows of the File row written for   *)
(* that path are exactly the blocks the new trace gives for the path (the  *)
(* same bag of six-field blocks): no Range row of an earlier ingestion of  *)
(* that File remains, also when the new trace has fewer blocks.  The       *)
(* Report the ingestion loaded is the one stored when it commits, and a    *)
(* path that had one File row still has exactly that row.                  *)
(***************************************************************************)
C8_ReplaceSemantics ==
    [][\A w \in Workers :
         ReIngestionStep(w) =>
           LET msg == worker[w].tx.msg
               trace == TraceOf(msg)
           IN  \A i \in 1..Len(trace) :
                 \E f \in FilesFor(files', msg.repo_id, msg.branch) :
                   /\ f.file_path = trace[i].file_path
                   /\ f.id = worker[w].tx.ops[i].file.id
                   /\ BlocksOfFile(ranges', f.id) = BagOfBlocks(trace[i].ranges)
                   /\ LET before == {g \in FilesFor(files, msg.repo_id, msg.branch) :
                                        g.file_path = f.file_path}
                      IN  Cardinality(before) <= 1 =>
                            /\ \A g \in before : g.id = f.id
                            /\ {g \in FilesFor(files', msg.repo_id, msg.branch) :
                                  g.file_path = f.file_path} = {f}]_vars

\* the coverage of file f shrank from two blocks to one
C8_Witness ==
    /\ \E r \in reports : r.commit = "def" /\ r.status = "completed"
                          /\ r.created_at < r.updated_at
    /\ \E l \in Lineages : hist[l].body = "ok1" /\ Finished(l) /\ LastAct(l).path = "ok"
    /\ \E f \in files :
         /\ f.file_path = <<"f">>
         /\ f.created_at < f.updated_at
         /\ BagCardinality(BlocksOfFile(ranges, f.id)) = 1
         /\ \A x \in DOMAIN ranges : x.file_id = f.id => x.created_at = f.updated_at

(***************************************************************************)
(* C9 as claimed: successfully processing the same message twice in a row  *)
(* leaves the Report rows, File rows and per-file Range blocks, and every  *)
(* Report field other than updated_at, equal to the state after            *)
(* processing it once.                                                     *)
(***************************************************************************)
SameExcept(r1, r2, fields) ==
    \A f \in (DOMAIN r1) \ fields : r1[f] = r2[f]

\* the store is as the ingestion of the message of worker w left it, and w
\* has read that state
StoredOnce(w) ==
    LET tx == worker[w].tx
        msg == tx.msg
        trace == TraceOf(msg)
    IN  /\ tx.loaded # <<>>
        /\ ReportsFor(reports, msg.repo_id, msg.branch) = {tx.loaded[1]}
        /\ tx.loaded[1].status = "completed"
        /\ tx.loaded[1].commit = msg.commit
        /\ tx.loaded[1].ci_provider = DictGet(msg.ci, "provider", "")
        /\ tx.loaded[1].ci_pipeline_id = DictGet(msg.ci, "pipeline_id", "")
        /\ tx.loaded[1].ci_job_id = DictGet(msg.ci, "job_id", "")
        /\ tx.loaded[1].coverage_format = DictGet(msg.coverage, "format", "goc")
        /\ tx.loaded[1].coverage_raw = DictGet(msg.coverage, "raw", <<>>)
        /\ \A i \in 1..Len(trace) :
             LET same == {f \in FilesFor(files, msg.repo_id, msg.branch) :
                            f.file_path = trace[i].file_path}
             IN  /\ Cardinality(same) = 1
                 /\ \A f \in same :
                      BlocksOfFile(ranges, f.id) = BagOfBlocks(trace[i].ranges)

\* the rows of the two states agree on every column outside `ignored(row)`
SameRows(before, after, ignored(_)) ==
    /\ Cardinality(before) = Cardinality(after)
    /\ \A r \in before : \E r2 \in after : r2.id = r.id /\ SameExcept(r, r2, ignored(r))

SameRangeBlocks ==
    /\ {x.file_id : x \in DOMAIN ranges'} = {x.file_id : x \in DOMAIN ranges}
    /\ \A f \in files : BlocksOfFile(ranges', f.id) = BlocksOfFile(ranges, f.id)

OnlyUpdatedAt(r) == {"updated_at"}

C9_Idempotent ==
    [][\A w \in Workers :
         (CommitStep(w) /\ StoredOnce(w)) =>
           /\ SameRows(reports, reports', OnlyUpdatedAt)
           /\ SameRows(files, files', OnlyUpdatedAt)
           /\ SameRangeBlocks]_vars

(***************************************************************************)
(* C9 as amended: ... and every Report field other than updated_at and a   *)
(* base_commit that was still empty (the second processing resolves the    *)
(* base commit again when the first left it empty) ...                     *)
(***************************************************************************)
UpdatedAtAndEmptyBaseCommit(r) ==
    IF r.base_commit = "" THEN {"updated_at", "base_commit"} ELSE {"updated_at"}

C9_IdempotentButBaseCommit ==
    [][\A w \in Workers :
         (CommitStep(w) /\ StoredOnce(w)) =>
           /\ SameRows(reports, reports', UpdatedAtAndEmptyBaseCommit)
           /\ SameRows(files, files', OnlyUpdatedAt)
           /\ SameRangeBlocks]_vars

\* the same message was ingested twice, one after the other
C9_Witness ==
    /\ Cardinality(Lineages) = 2
    /\ hist[1].body = hist[2].body
    /\ \A l \in Lineages : Finished(l) /\ hist[l].acts = <<[act |-> "ack", path |-> "ok"]>>
    /\ Cardinality(reports) = 1
    /\ \E r \in reports : r.created_at < r.updated_at /\ r.status = "completed"
    /\ \A f \in files : f.created_at < f.updated_at
    /\ files # {}

(***************************************************************************)
(* C11: materialization is best effort.  When the target tree, the base    *)
(* commit or the base tree could not be obtained, the ingestion goes on to *)
(* commit: the Report is stored with status completed together with every  *)
(* File and Range of the trace, and the delivery is acked and not          *)
(* republished.  (A step that injects a store error or a crash is not a    *)
(* materialization failure.)                                               *)
(***************************************************************************)
TreeOf(repo, commit) == [repo |-> repo, commit |-> commit]

MaterializationFailed(w) ==
    LET tx == worker[w].tx
    IN  /\ worker[w].pc = "cloned"
        /\ \/ TreeOf(tx.msg.repo, tx.msg.commit) \notin worktrees
           \/ tx.report.base_commit = ""
           \/ TreeOf(tx.msg.repo, tx.report.base_commit) \notin worktrees

C11_BestEffortMaterialization ==
    [][\A w \in Workers :
         /\ (/\ worker[w].pc = "tx"
             /\ worker[w].tx.kind = "store"
             /\ worker'[w] # worker[w]
             /\ faults' = faults)
              => /\ worker'[w].pc = "cloned"
                 /\ worker'[w].tx.ops = worker[w].tx.ops
                 /\ worker'[w].tx.ranges_timestamp = worker[w].tx.ranges_timestamp
                 /\ SameExcept(worker[w].tx.report, worker'[w].tx.report,
                               {"base_commit"})
                 /\ queue' = queue
                 /\ hist'[worker[w].d.lin].acts = hist[worker[w].d.lin].acts
         /\ (/\ MaterializationFailed(w)
             /\ worker'[w] # worker[w]
             /\ faults' = faults)
              => LET tx == worker[w].tx
                     trace == TraceOf(tx.msg)
                 IN  /\ CommitStep(w)
                     /\ queue' = queue
                     /\ hist'[worker[w].d.lin].acts
                          = Append(hist[worker[w].d.lin].acts,
                                   [act |-> "ack", path |-> "ok"])
                     /\ hist'[worker[w].d.lin].republished
                          = hist[worker[w].d.lin].republished
                     /\ \E r \in reports' :
                          /\ r.id = tx.report.id
                          /\ r.status = "completed"
                          /\ r.updated_at = tx.ranges_timestamp
                     /\ \A i \in 1..Len(trace) :
                          \E f \in files' :
                            /\ f.id = tx.ops[i].file.id
                            /\ f.file_path = trace[i].file_path
                            /\ BlocksOfFile(ranges', f.id)
                                 = BagOfBlocks(trace[i].ranges)]_vars

\* a message was stored and acked although nothing could be materialized
C11_Witness ==
    /\ worktrees = {}
    /\ \E l \in Lineages :
         /\ hist[l].body = "ok1"
         /\ hist[l].matCalls = 1
         /\ hist[l].acts = <<[act |-> "ack", path |-> "ok"]>>
         /\ hist[l].republished = <<>>
    /\ \E r \in reports : r.status = "completed" /\ r.base_commit = ""
    /\ BagCardinality(ranges) = 2

(***************************************************************************)
(* C12: a re-ingestion for an existing (repo_id, branch) leaves the        *)
(* Report's base_branch as it was, also when Config.base_branch was        *)
(* changed since the Report was created, and leaves a non-empty            *)
(* base_commit as it was, also when the message carries another target     *)
(* commit.  The Report the ingestion loaded is the one stored when it      *)
(* writes.                                                                 *)
(***************************************************************************)
\* worker w commits a write of the Report it loaded (completed or failed)
RewriteStep(w) ==
    /\ worker[w].pc \in {"tx", "cloned"}
    /\ worker'[w].pc = "idle"
    /\ reports' # reports
    /\ worker[w].tx.loaded # <<>>
    /\ ReportsFor(reports, worker[w].tx.msg.repo_id, worker[w].tx.msg.branch)
         = {worker[w].tx.loaded[1]}

C12_BaseFrozen ==
    [][\A w \in Workers :
         RewriteStep(w) =>
           LET old == worker[w].tx.loaded[1]
               after == ReportsFor(reports', old.repo_id, old.branch)
           IN  /\ Cardinality(after) = 1
               /\ \A r \in after :
                    /\ r.id = old.id
                    /\ r.base_branch = old.base_branch
                    /\ old.base_commit # "" => r.base_commit = old.base_commit]_vars

\* the Report was re-ingested with another commit after the Config changed:
\* it keeps the base branch and the base commit of its first ingestion
C12_Witness ==
    \E r \in reports :
      /\ r.status = "completed"
      /\ r.commit = "def"
      /\ r.created_at < r.updated_at
      /\ r.base_branch = "develop"
      /\ r.base_commit = MergeBase("develop", "abc")
      /\ r.base_commit # MergeBase(r.base_branch, r.commit)
      /\ \A c \in config : c.repo_id = r.repo_id /\ c.base_branch = "main"

(***************************************************************************)
(* C13: lock mutual exclusion.  In every interleaving of concurrent        *)
(* ensure_worktree(U, C) calls at most one caller at a time is inside the  *)
(* create-worktree step (the git worktree add subprocess and the code of   *)
(* the with block around it).                                              *)
(***************************************************************************)
InCreate(p) == caller[p].pc \in {"add", "adding", "added"}

C13_LockMutualExclusion ==
    /\ Cardinality({p \in Callers : InCreate(p)}) <= 1
    /\ \A p \in Callers :
         caller[p].pc \in {"recheck", "add", "adding", "added"} => lockHolder = p

\* one caller runs git worktree add while another has been refused the lock
C13_Witness ==
    \E p, q \in Callers :
      /\ caller[p].pc = "adding"
      /\ caller[q].pc = "enter"
      /\ caller[q].retry_count >= 2

(***************************************************************************)
(* C14 as claimed: no ensure_worktree call removes worktrees/<C> while     *)
(* another caller holds the per-commit lock for C (and is creating, or has *)
(* just created, that worktree).                                           *)
(***************************************************************************)
C14_RemovalOnlyUnderLock ==
    [][\A p \in Callers :
         (caller[p].pc = "rmtree" /\ tree # "absent" /\ tree' = "absent")
            => lockHolder \in {0, p}]_vars

(***************************************************************************)
(* C15 as claimed: whenever ensure_worktree(U, C) returns success, the     *)
(* directory worktrees/<C> exists and its HEAD resolves to C, on every     *)
(* success path.                                                           *)
(***************************************************************************)
C15_SuccessMeansHeadAtCommit ==
    [][\A p \in Callers :
         (caller[p].pc # "done" /\ caller'[p].pc = "done" /\ caller'[p].ret = TRUE)
            => tree' = "ok"]_vars

(***************************************************************************)
(* C16: bounded lock wait.  A caller that finds the lock held makes at     *)
(* most 30 non-blocking attempts, with a one-second sleep between two      *)
(* attempts; when all 30 fail the call is over, it never ran the           *)
(* create-worktree step and clone_or_update_repo has returned False.       *)
(***************************************************************************)
C16_BoundedLockWait ==
    \A p \in Callers :
      /\ caller[p].retry_count <= max_retries
      /\ caller[p].slept = IF caller[p].retry_count = max_retries
                           THEN max_retries - 1 ELSE caller[p].retry_count
      /\ caller[p].retry_count = max_retries =>
           /\ caller[p].pc = "done"
           /\ caller[p].ret = FALSE
           /\ ~caller[p].locked
           /\ ~caller[p].created
           /\ lockHolder # p

\* a caller gave up after 30 refused attempts while the other was still
\* running git worktree add
C16_Witness ==
    \E p, q \in Callers :
      /\ caller[p].retry_count = max_retries
      /\ caller[p].slept = max_retries - 1
      /\ caller[p].pc = "done"
      /\ caller[p].ret = FALSE
      /\ caller[q].pc = "adding"
      /\ lockHolder = q

(***************************************************************************)
(* C17 as claimed: for a zero-context unified diff with several files and  *)
(* several hunks per file the parser returns exactly one hunk per hunk     *)
(* header, in input order, each with the post-image path of the nearest    *)
(* preceding diff --git header.                                            *)
(***************************************************************************)
\* the hunk headers of the diff in input order, each with the path of its file
RECURSIVE HeadersOfShape(_)
HeadersOfShape(shape) ==
    IF shape = <<>> THEN <<>>
    ELSE [k \in 1..Len(Head(shape).hunks) |->
            [file_path |-> Head(shape).path,
             template |-> HunkTemplates[Head(shape).hunks[k]]]]
           \o HeadersOfShape(Tail(shape))

Parsed == input.fn = "_parse_unified_diff" /\ output.returned

C17_OneHunkPerHeader ==
    Parsed =>
      LET headers == HeadersOfShape(input.shape)
      IN  /\ Len(output.value) = Len(headers)
          /\ \A k \in 1..Len(headers) :
               /\ output.value[k].file_path = headers[k].file_path
               /\ output.value[k].new_start = headers[k].template.new_start
               /\ output.value[k].new_count = headers[k].template.new_count

(***************************************************************************)
(* C18 as claimed: the added-line list of a hunk `@@ -a[,m] +b[,n] @@` is  *)
(* the post-image line numbers of the body lines whose first character is  *)
(* '+', whatever the rest of the line is: b, b+1, ..., b+n-1 for a         *)
(* zero-context hunk, and empty for a deletion-only hunk.                  *)
(***************************************************************************)
PlusLines(body) == {j \in 1..Len(body) : body[j][1] = "+"}

C18_AddedLines ==
    Parsed =>
      \A k \in 1..Len(output.value) :
        \A t \in 1..Len(HunkTemplates) :
          HunkTemplates[t].new_start = output.value[k].new_start =>
            /\ Len(output.value[k].added_lines) = Cardinality(PlusLines(HunkTemplates[t].body))
            /\ output.value[k].added_lines =
                 [j \in 1..HunkTemplates[t].new_count |->
                    HunkTemplates[t].new_start + j - 1]

\* the blocks of the list whose inclusive line range contains line L, in
\* list order
Containing(coverage_blocks, L) ==
    SelectSeq(coverage_blocks, LAMBDA b : b.start_line <= L /\ L <= b.end_line)

Indexed == input.fn = "build_coverage_index" /\ output.returned

(***************************************************************************)
(* C19: per-line verdict.  For every block list and every line L the index *)
(* maps L to exactly the blocks with start_line <= L <= end_line; L is     *)
(* unknown iff no block contains it, covered iff some containing block has *)
(* hit > 0, uncovered otherwise, and the hit count reported for a line     *)
(* that is not unknown is the largest hit of the blocks containing it.     *)
(***************************************************************************)
C19_PerLineVerdict ==
    Indexed =>
      \A L \in QueryLines :
        LET B_L == Containing(input.coverage_blocks, L)
            hits == {B_L[k].hit : k \in DOMAIN B_L}
            line_to_blocks == output.value.index.line_to_blocks
            stored == IF L \in DOMAIN line_to_blocks THEN line_to_blocks[L] ELSE <<>>
            verdict == output.value.coverage[L]
        IN  /\ stored = B_L
            /\ verdict \in {None, True, False}
            /\ (verdict = None) <=> (B_L = <<>>)
            /\ (verdict = True) <=> (\E h \in hits : h > 0)
            /\ B_L # <<>> =>
                 /\ \A h \in hits : h <= output.value.hit_count[L]
                 /\ output.value.hit_count[L] \in hits

\* an index built from overlapping blocks: one line lies in a block never
\* run and in a block that was run, one in a block never run only, one in
\* no block
C19_Witness ==
    /\ Indexed
    /\ \E L1, L2, L3 \in QueryLines :
         /\ Len(Containing(input.coverage_blocks, L1)) = 2
         /\ output.value.coverage[L1] = True
         /\ \E k \in 1..2 : Containing(input.coverage_blocks, L1)[k].hit = 0
         /\ output.value.hit_count[L1] > 1
         /\ output.value.coverage[L2] = False
         /\ output.value.coverage[L3] = None
         /\ L3 \in 1..MaxLine

Summarized == input.fn = "generate_diff_coverage_summary" /\ output.returned

RECURSIVE SumOf(_, _)
SumOf(file_results, field) ==
    IF file_results = <<>> THEN 0
    ELSE Head(file_results)[field] + SumOf(Tail(file_results), field)

(***************************************************************************)
(* C20: diff summary identity.  For every list of per-file results         *)
(* new_covered_lines and new_uncovered_lines are the sums of the per-file  *)
(* counts, and incremental_coverage_rate is new_covered / (new_covered +   *)
(* new_uncovered) x 100 when that denominator is positive and 0 when it is *)
(* 0: rate x (new_covered + new_uncovered) = 100 x new_covered.            *)
(***************************************************************************)
C20_DiffSummaryIdentity ==
    Summarized =>
      LET new_covered == SumOf(input.file_results, "new_covered_count")
          new_uncovered == SumOf(input.file_results, "new_uncovered_count")
          rate == output.value.incremental_coverage_rate
      IN  /\ output.value.new_covered_lines = new_covered
          /\ output.value.new_uncovered_lines = new_uncovered
          /\ rate.den > 0
          /\ rate.num * (new_covered + new_uncovered) = 100 * new_covered * rate.den
          /\ new_covered + new_uncovered = 0 => rate.num = 0

\* a summary of several files with covered and uncovered lines whose rate
\* is not a whole number
C20_Witness ==
    /\ Summarized
    /\ Len(input.file_results) >= 2
    /\ output.value.new_covered_lines > 0
    /\ output.value.new_uncovered_lines > 0
    /\ output.value.incremental_coverage_rate.den > 1

Merged == input.fn = "merge_diff_and_coverage" /\ output.returned

\* the status emitted for line L of the file at position k of a result, None
\* when the line is not emitted
StatusOf(result, k, L) ==
    IF \E a \in DOMAIN result[k].lines : result[k].lines[a].line_number = L
    THEN result[k].lines[
             CHOOSE a \in DOMAIN result[k].lines : result[k].lines[a].line_number = L].status
    ELSE None

(***************************************************************************)
(* C21: verdict monotonicity.  For any added lines and any block list,     *)
(* adding further blocks with hit > 0 never turns an emitted line from     *)
(* new_covered to new_uncovered and never removes an emitted line; per     *)
(* file new_covered never decreases and new_uncovered never increases.     *)
(***************************************************************************)
C21_VerdictMonotonicity ==
    Merged =>
      LET before == output.value.before
          after == output.value.after
      IN  /\ Len(after) = Len(before)
          /\ \A k \in DOMAIN before :
               /\ after[k].file_path = before[k].file_path
               /\ after[k].new_covered_count >= before[k].new_covered_count
               /\ after[k].new_uncovered_count <= before[k].new_uncovered_count
               /\ \A L \in QueryLines :
                    /\ StatusOf(before, k, L) # None => StatusOf(after, k, L) # None
                    /\ StatusOf(before, k, L) = "new_covered"
                         => StatusOf(after, k, L) = "new_covered"
                    /\ StatusOf(after, k, L) = "new_uncovered"
                         => StatusOf(before, k, L) = "new_uncovered"

\* a further block turned an uncovered added line into a covered one and
\* made a line without coverage data appear, while another added line stayed
\* uncovered
C21_Witness ==
    /\ Merged
    /\ \E k \in DOMAIN output.value.before : \E L1, L2, L3 \in QueryLines :
         /\ StatusOf(output.value.before, k, L1) = "new_uncovered"
         /\ StatusOf(output.value.after, k, L1) = "new_covered"
         /\ StatusOf(output.value.before, k, L2) = None
         /\ StatusOf(output.value.after, k, L2) = "new_covered"
         /\ StatusOf(output.value.before, k, L3) = "new_uncovered"
         /\ StatusOf(output.value.after, k, L3) = "new_uncovered"

\* the messages published to the exchange
PublishedMessages ==
    {CoverageReportMessage(BodyOf(b).data) :
       b \in {c \in BodyIds : Decode(BodyOf(c)).err = "none"
                                /\ Decode(BodyOf(c)).jtype = "object"}}

\* the Range rows of File row f are the blocks one message gives for its path
FromOneMessage(rg, f) ==
    \E m \in PublishedMessages :
      /\ DictGet(m.coverage, "format", "goc") \in SupportedFormats
      /\ \E i \in 1..Len(TraceOf(m)) :
           /\ TraceOf(m)[i].file_path = f.file_path
           /\ BlocksOfFile(rg, f.id) = BagOfBlocks(TraceOf(m)[i].ranges)

(***************************************************************************)
(* C24 as claimed: when messages of one (repo_id, branch) are processed    *)
(* concurrently by different workers the store is as after processing them *)
(* one after the other in the order of their commits: after each commit    *)
(* the key has one Report row, which carries the fields of the message     *)
(* just committed, and the Range rows of each File of the key come from a  *)
(* single message.                                                         *)
(***************************************************************************)
C24_SerialOutcome ==
    [][\A w \in Workers :
         CommitStep(w) =>
           LET msg == worker[w].tx.msg
               now == ReportsFor(reports', msg.repo_id, msg.branch)
           IN  /\ Cardinality(now) = 1
               /\ \A r \in now :
                    /\ r.commit = msg.commit
                    /\ r.ci_provider = DictGet(msg.ci, "provider", "")
                    /\ r.ci_pipeline_id = DictGet(msg.ci, "pipeline_id", "")
                    /\ r.ci_job_id = DictGet(msg.ci, "job_id", "")
                    /\ r.coverage_format = DictGet(msg.coverage, "format", "goc")
                    /\ r.coverage_raw = DictGet(msg.coverage, "raw", <<>>)
                    /\ r.status = "completed"
               /\ \A f \in FilesFor(files', msg.repo_id, msg.branch) :
                    FromOneMessage(ranges', f)]_vars

(***************************************************************************)
(* C25: in every committed state every File row is referenced by at least  *)
(* one Range row, and the file_id of every Range row is the id of a File   *)
(* row, after any sequence of successful, failed and rolled-back           *)
(* ingestions.                                                             *)
(***************************************************************************)
C25_FilesAndRanges ==
    /\ \A f \in files : \E x \in DOMAIN ranges : x.file_id = f.id /\ ranges[x] >= 1
    /\ \A x \in DOMAIN ranges : \E f \in files : f.id = x.file_id

\* Files and Ranges were stored by a delivery that succeeded after an earlier
\* delivery of the message was rolled back
C25_Witness ==
    /\ files # {}
    /\ ranges # EmptyBag
    /\ \E l \in Lineages :
         /\ hist[l].raisedIn >= 1
         /\ Finished(l)
         /\ LastAct(l).path = "ok"

TraceParsed == input.fn = "parse_goc_coverage" /\ output.returned

(***************************************************************************)
(* C27 as claimed: parser round trip.  For any mapping of file paths to    *)
(* block lists, the text with one line                                     *)
(* <file_path>:<startLine>.<startCol>,<endLine>.<endCol> <statements>      *)
(* <count> per block, with or without a mode: header, parses back to the   *)
(* same mapping with the six numeric fields of every block, also for file  *)
(* paths that contain a colon.                                             *)
(***************************************************************************)
C27_ParserRoundTrip ==
    TraceParsed => output.value = input.mapping

\* this step ends a delivery of lineage l
DeliveryEnds(l) == Len(hist'[l].acts) = Len(hist[l].acts) + 1

\* this step puts a retry copy of lineage l, with the counter raised by one,
\* at the tail of the queue
RetryPublished(l, retry_count) ==
    /\ Len(hist'[l].republished) = Len(hist[l].republished) + 1
    /\ queue' # <<>>
    /\ queue'[Len(queue')].lin = l
    /\ queue'[Len(queue')].body = hist[l].body
    /\ get_retry_count(HeadersOf(queue'[Len(queue')])) = retry_count + 1

(***************************************************************************)
(* C28: on a processing failure with x-retry-count < 10 the worker         *)
(* publishes the retry copy and acks the original only when the publish    *)
(* succeeded; when the publish fails the original is nacked without        *)
(* requeue.  No delivery is acked unless it was processed successfully,    *)
(* dropped by the admission gate, or a retry copy of it was published.     *)
(***************************************************************************)
C28_AckOnlyAfterPublish ==
    [][\A l \in Lineages :
         DeliveryEnds(l) =>
           LET a == hist'[l].acts[Len(hist'[l].acts)]
               d == IF worker["w1"].pc = "idle" THEN Head(queue) ELSE worker["w1"].d
               retry_count == get_retry_count(HeadersOf(d))
               failed == hist'[l].raisedIn = hist[l].raisedIn + 1
                           \/ (Undecodable(hist[l].body) /\ a.path # "poison")
           IN  /\ d.lin = l
               /\ a.act = "ack" =>
                    \/ CommitStep("w1")
                    \/ NotAdmitted(l) /\ store' = store /\ queue' = Tail(queue)
                    \/ RetryPublished(l, retry_count)
               /\ (failed /\ retry_count < MAX_RETRY_COUNT) =>
                    \/ a.act = "ack" /\ RetryPublished(l, retry_count)
                    \/ /\ a.act = "nack"
                       /\ hist'[l].republished = hist[l].republished
                       /\ \A i \in 1..Len(queue') : queue'[i].lin # l
               /\ a.act = "nack" => hist'[l].republished = hist[l].republished]_vars

\* a delivery failed, its retry copy was published and the original acked;
\* the copy failed too, its republish failed and it was nacked
C28_Witness ==
    \E l \in Lineages :
      /\ Len(hist[l].acts) = 2
      /\ hist[l].acts[1] = [act |-> "ack", path |-> "retry"]
      /\ hist[l].acts[2] = [act |-> "nack", path |-> "pubfail"]
      /\ Len(hist[l].republished) = 1
      /\ \A i \in 1..Len(queue) : queue[i].lin # l

\* this step ends worker w's ingestion of a message with an unsupported
\* format, and the store did not fail in it
UnsupportedStep(w) ==
    /\ worker[w].pc = "tx"
    /\ worker[w].tx.kind = "unsupported"
    /\ worker'[w].pc = "idle"
    /\ \/ faults' = faults
       \/ hist'[worker[w].d.lin].acts[Len(hist'[worker[w].d.lin].acts)].path = "pubfail"

(***************************************************************************)
(* C29: when an admitted message has an unsupported coverage format, the   *)
(* Report row of its (repo_id, branch) is stored with status failed and a  *)
(* non-empty error_message, created if the ingestion found none and        *)
(* updated in place otherwise; the row is there when the error has         *)
(* propagated and the delivery is over, and no File or Range row is        *)
(* created, changed or deleted.                                            *)
(***************************************************************************)
C29_UnsupportedMarkedFailed ==
    [][\A w \in Workers :
         UnsupportedStep(w) =>
           LET tx == worker[w].tx
               stored == {r \in reports' : r.id = tx.report.id}
           IN  /\ Cardinality(stored) = 1
               /\ \A r \in stored :
                    /\ r.repo_id = tx.msg.repo_id
                    /\ r.branch = tx.msg.branch
                    /\ r.status = "failed"
                    /\ r.error_message # None
                    /\ r.error_message # ""
                    /\ IF tx.loaded = <<>>
                       THEN /\ \A q \in reports : q.id # r.id
                            /\ reports' = reports \cup {r}
                       ELSE /\ r.id = tx.loaded[1].id
                            /\ r.created_at = tx.loaded[1].created_at
                            /\ {q.id : q \in reports'} = {q.id : q \in reports}
               /\ files' = files
               /\ ranges' = ranges]_vars

\* a Report that held a completed ingestion was marked failed in place, and
\* the Files of the earlier ingestion are still there
C29_Witness ==
    /\ \E r \in reports :
         /\ r.status = "failed"
         /\ r.commit = "bad"
         /\ r.error_message # None
         /\ r.created_at < r.updated_at
    /\ files # {}
    /\ Cardinality(reports) = 1
    /\ \A w \in Workers : worker[w].pc = "idle"

\* this step is worker w's pass through lines 374-440
MaterializeStep(w) == worker[w].pc = "tx" /\ worker'[w].pc = "cloned"

(***************************************************************************)
(* C30: during ingestion the base commit is resolved only when the         *)
(* Report's base_commit is empty and the materialization of the target     *)
(* commit succeeded; when the target materialization fails base_commit is  *)
(* left as it was and no base tree is materialized; when the resolution    *)
(* yields a commit, Report.base_commit is set to it and the                *)
(* materialization of that commit is attempted.                            *)
(***************************************************************************)
C30_BaseResolutionGuard ==
    [][\A w \in Workers :
         MaterializeStep(w) =>
           LET msg == worker[w].tx.msg
               before == worker[w].tx.report.base_commit
               after == worker'[w].tx.report.base_commit
               calls == worker'[w].tx.calls
           IN  /\ calls # <<>>
               /\ calls[1].op = "clone"
               /\ calls[1].commit = msg.commit
               /\ \A k \in DOMAIN calls :
                    calls[k].op = "resolve" =>
                      /\ before = ""
                      /\ calls[1].ok
                      /\ k = 2
               /\ ~calls[1].ok =>
                    /\ after = before
                    /\ Len(calls) = 1
                    /\ worktrees' = worktrees
               /\ \A k \in DOMAIN calls :
                    (calls[k].op = "resolve" /\ calls[k].ok) =>
                      /\ after = calls[k].commit
                      /\ k < Len(calls)
                      /\ calls[k + 1].op = "clone"
                      /\ calls[k + 1].commit = calls[k].commit
               /\ (\A k \in DOMAIN calls : ~(calls[k].op = "resolve" /\ calls[k].ok))
                    => after = before]_vars

\* the target tree was materialized, the base commit was resolved and stored
\* in the Report, and the base tree was attempted and failed
C30_Witness ==
    \E w \in Workers :
      /\ worker[w].pc = "cloned"
      /\ Len(worker[w].tx.calls) >= 3
      /\ worker[w].tx.calls[1].ok
      /\ worker[w].tx.calls[2] = ResolveCall(worker[w].tx.report.base_commit)
      /\ worker[w].tx.calls[3] = CloneCall(worker[w].tx.report.base_commit, FALSE)
      /\ worker[w].tx.report.base_commit # ""

(***************************************************************************)
(* The diff-coverage read of the API                                       *)
(***************************************************************************)
\* a step in which get_diff_coverage, its Report and Config loaded, answers
DiffResponseStep == api.pc = "loaded" /\ api'.pc = "idle"

\* the step of the read in which no data could be produced: the base commit
\* was not resolved, or git diff failed
NoDataStep ==
    /\ DiffResponseStep
    /\ \/ api'.git[1].base_commit = None
       \/ ~api'.git[1].diff_ok

\* C22: when the Report and its Config exist and the read cannot produce data
\* (the base commit is not resolved, or the diff command fails), the response
\* is a success with an empty file list and an all-zero summary, not an error
C22_FailureGivesEmptyResult ==
    [][NoDataStep =>
         /\ api'.response[1].status = 200
         /\ api'.response[1].body.files = <<>>
         /\ api'.response[1].body.summary = ZeroSummary]_vars

\* the step in which a diff read answers with success, for a Report that is
\* stored as the read loaded it
SuccessfulReadStep ==
    /\ DiffResponseStep
    /\ api'.response[1].status = 200
    /\ api.loaded[1] \in reports

\* C23: after a successful diff read of a Report whose stored base_commit is
\* empty, the stored row carries the base_commit and base_branch the read
\* resolved; a read of a Report whose base_commit is not empty leaves the
\* stored rows as they are
C23_WriteBackCommitted ==
    [][SuccessfulReadStep =>
         IF api.loaded[1].base_commit = ""
         THEN \A r \in reports' :
                r.id = api.report_id =>
                  /\ r.base_commit = api'.response[1].body.base_commit
                  /\ r.base_branch = api'.response[1].body.base_branch
         ELSE reports' = reports]_vars

\* C26: in every committed state every Report row has updated_at >=
\* created_at, whatever ingestions (completed or marked failed), diff reads
\* that persist a base commit and base-commit updates came before
C26_UpdatedNotBeforeCreated ==
    \A r \in reports : r.updated_at >= r.created_at

\* a diff read has persisted the base commit it resolved, after an ingestion
\* that left the Report without one
C26_Witness ==
    /\ api.pc = "idle"
    /\ api.route = "diff"
    /\ api.response # <<>>
    /\ api.response[1].status = 200
    /\ api.loaded[1].base_commit = ""
    /\ \E r \in reports :
         /\ r.id = api.report_id
         /\ r.base_commit = api.response[1].body.base_commit
         /\ r.updated_at > api.loaded[1].updated_at

(***************************************************************************)
(* fetch_commit                                                            *)
(***************************************************************************)
Fetched == input.fn = "fetch_commit" /\ output.returned

\* the least of a non-empty set of positions
First(S) == CHOOSE x \in S : \A y \in S : x <= y

\* the positions of the calls of fetch_commit that ran the command given
CallsOf(calls, cmd) == {k \in DOMAIN calls : calls[k].cmd = cmd}

\* C31: fetch_commit returns success only if its last object-existence probe
\* succeeded; it fetches nothing when the first probe succeeds; the fetch by
\* hash comes first and the fetch of all refs runs only after the fetch by
\* hash failed; it returns failure when both fetches fail and when the commit
\* is still absent on the second probe
C31_FetchCommit ==
    Fetched =>
      LET value == output.value.value
          calls == output.value.calls
          probes == CallsOf(calls, "cat-file -e")
          byHash == CallsOf(calls, "fetch origin <commit>")
          all == CallsOf(calls, "fetch origin")
      IN  /\ value => /\ probes # {}
                      /\ calls[Len(calls)].cmd = "cat-file -e"
                      /\ calls[Len(calls)].result = "ok"
          /\ (probes # {} /\ calls[First(probes)].result = "ok") =>
                byHash = {} /\ all = {}
          /\ \A a \in all : /\ a - 1 \in byHash
                            /\ calls[a - 1].result = "fail"
          /\ \A h \in byHash : h - 1 = First(probes) /\ calls[h - 1].result = "fail"
          /\ (\E h \in byHash : calls[h].result # "ok")
               /\ (\A a \in all : calls[a].result # "ok") => ~value
          /\ (Cardinality(probes) = 2 /\ calls[Len(calls)].result # "ok") => ~value
          /\ Cardinality(probes) <= 2 /\ Cardinality(byHash) <= 1 /\ Cardinality(all) <= 1

\* the fetch by hash failed, the fetch of all refs went through and the second
\* probe found the commit
C31_Witness ==
    /\ Fetched
    /\ output.value.value
    /\ CallsOf(output.value.calls, "fetch origin") # {}

(***************************************************************************)
(* The records of merge_diff_and_coverage                                  *)
(***************************************************************************)
\* the added lines of a file over all its hunks
AddedLinesOf(diff_hunks, file_path) ==
    UNION {{diff_hunks[k].added_lines[a] : a \in DOMAIN diff_hunks[k].added_lines} :
             k \in {j \in DOMAIN diff_hunks : diff_hunks[j].file_path = file_path}}

\* C32: for each file of the diff the merger emits one record for each
\* distinct added line whose verdict is not unknown, in ascending line order,
\* also when the line is in several hunks; no record for a line of unknown
\* verdict; every record has is_new = true and status new_covered or
\* new_uncovered as the verdict says; the counts of coverage_degraded and
\* coverage_improved are 0 and the per-file counts are the numbers of records
\* of each status
C32_MergedRecords ==
    Merged =>
      LET result == output.value.before
          index == build_coverage_index(input.coverage_blocks)
          paths == {input.diff_hunks[k].file_path : k \in DOMAIN input.diff_hunks}
      IN  /\ {result[k].file_path : k \in DOMAIN result} = paths
          /\ Len(result) = Cardinality(paths)
          /\ \A k \in DOMAIN result :
               LET lines == result[k].lines
                   known == {L \in AddedLinesOf(input.diff_hunks, result[k].file_path) :
                               get_line_coverage(index, L) # None}
                   count(status) ==
                       Cardinality({a \in DOMAIN lines : lines[a].status = status})
               IN  /\ {lines[a].line_number : a \in DOMAIN lines} = known
                   /\ \A a, b \in DOMAIN lines :
                        a < b => lines[a].line_number < lines[b].line_number
                   /\ \A a \in DOMAIN lines :
                        /\ lines[a].is_new
                        /\ lines[a].status =
                             IF get_line_coverage(index, lines[a].line_number) = True
                             THEN "new_covered" ELSE "new_uncovered"
                   /\ result[k].coverage_degraded_count = 0
                   /\ result[k].coverage_improved_count = 0
                   /\ result[k].new_covered_count = count("new_covered")
                   /\ result[k].new_uncovered_count = count("new_uncovered")

\* a file with an added line in two hunks, emitted once, with a covered line,
\* an uncovered line and a line of unknown verdict that is left out
C32_Witness ==
    /\ Merged
    /\ \E k \in DOMAIN output.value.before :
         LET fr == output.value.before[k]
             mine == {j \in DOMAIN input.diff_hunks :
                        input.diff_hunks[j].file_path = fr.file_path}
         IN  /\ \E i, j \in mine :
                  /\ i # j
                  /\ \E a \in DOMAIN input.diff_hunks[i].added_lines :
                     \E b \in DOMAIN input.diff_hunks[j].added_lines :
                       /\ input.diff_hunks[i].added_lines[a]
                            = input.diff_hunks[j].added_lines[b]
                       /\ StatusOf(output.value.before, k,
                                   input.diff_hunks[i].added_lines[a]) # None
             /\ fr.new_covered_count > 0
             /\ fr.new_uncovered_count > 0
             /\ Len(fr.lines) < Cardinality(AddedLinesOf(input.diff_hunks, fr.file_path))

(***************************************************************************)
(* Path reconciliation                                                     *)
(***************************************************************************)
\* the lookup has answered for a diff path that no stored File has exactly
Reconciled ==
    /\ input.fn = "get_coverage_blocks_for_file"
    /\ output.returned
    /\ \A k \in DOMAIN input.all_files : input.all_files[k] # input.file_path

\* the (module_prefix -> fs_prefix) pairs discovered in the worktree
Discovered ==
    IF input.worktree_exists
    THEN {input.module_mapping[k] : k \in DOMAIN input.module_mapping}
    ELSE {}

\* stored path S reconciles with diff path D through a discovered pair
Reconciles(S, D) ==
    \E item \in Discovered :
      \/ /\ S = item.module_name
         /\ item.fs_prefix = D
      \/ /\ Len(S) > Len(item.module_name)
         /\ SubSeq(S, 1, Len(item.module_name)) = item.module_name
         /\ S[Len(item.module_name) + 1] = "/"
         /\ item.fs_prefix \o SubSeq(S, Len(item.module_name) + 2, Len(S)) = D

\* C33: for a diff path D that no stored File has exactly, the stored File
\* used is the first one whose path S equals a discovered module prefix or
\* starts with module prefix + '/' and gives D when the module prefix is
\* replaced by its filesystem prefix; when no stored path does, no File is
\* used and the diff file contributes no records
C33_PathReconciliation ==
    Reconciled =>
      LET hits == {k \in DOMAIN input.all_files :
                     Reconciles(input.all_files[k], input.file_path)}
      IN  IF hits = {} THEN output.value = 0
          ELSE /\ output.value \in hits
               /\ \A k \in hits : output.value <= k

\* module p at the worktree root: stored p/a is used for the diff path a, the
\* stored path pxa before it is not
C33_Witness ==
    /\ Reconciled
    /\ input.file_path = <<"a">>
    /\ input.all_files = << <<"p", "x", "a">>, <<"p", "/", "a">> >>
    /\ input.module_mapping = <<[module_name |-> <<"p">>, fs_prefix |-> <<>>]>>
    /\ output.value = 2

(***************************************************************************)
(* Shutdown of a worker                                                    *)
(***************************************************************************)
\* the step in which worker w closes its channel and connection
CloseStep(w) == worker[w].pc # "stopped" /\ worker'[w].pc = "stopped"

\* C34: when a shutdown signal arrives while a message is being processed,
\* the worker finishes the message (its transaction commits or rolls back and
\* its ack or nack is issued) and only afterwards closes the channel and the
\* connection: a worker closes only when no delivery is in flight
C34_GracefulShutdown ==
    [][\A w \in Workers : CloseStep(w) => worker[w].pc = "idle"]_vars

(***************************************************************************)
(* Acknowledgements                                                        *)
(***************************************************************************)
\* the deliveries of message l that a callback is still working on
InFlight(l) ==
    Cardinality({w \in Workers : worker[w].pc \in {"tx", "cloned"} /\ worker[w].d.lin = l})

\* the paths on which the callback ends a delivery
AckPaths == {"ok", "drop", "emptyid", "poison", "retry", "exhausted", "pubfail"}

\* C35: every delivery handed to the callback gets exactly one broker
\* acknowledgement for its delivery tag, an ack or a nack without requeue,
\* never both and never none, on every path: success, admission miss, empty
\* repo_id, decode failure, retry republish, retry exhaustion and republish
\* failure.  Per message and its retry copies: as many acknowledgements as
\* deliveries that a callback has run to its end
C35_OneAckPerDelivery ==
    \A l \in DOMAIN hist :
      /\ Len(hist[l].acts) = hist[l].deliveries - hist[l].crashes - InFlight(l)
      /\ \A a \in DOMAIN hist[l].acts :
           /\ hist[l].acts[a].act \in {"ack", "nack"}
           /\ hist[l].acts[a].path \in AckPaths
           /\ hist[l].acts[a].act = "ack" <=> hist[l].acts[a].path \in {"ok", "drop", "retry"}

\* one message was republished and its copy then dropped when the republish
\* failed; another message was processed and acked
C35_Witness ==
    /\ queue = <<>>
    /\ \A w \in Workers : worker[w].pc = "idle"
    /\ \E l1, l2 \in DOMAIN hist :
         /\ \E a \in DOMAIN hist[l1].acts : hist[l1].acts[a].path = "retry"
         /\ hist[l1].acts[Len(hist[l1].acts)].path = "pubfail"
         /\ hist[l2].acts = <<[act |-> "ack", path |-> "ok"]>>

(***************************************************************************)
(* The status of committed Reports                                         *)
(***************************************************************************)
\* C36: no committed Report row has status processing or pending; processing
\* exists only inside an open ingestion transaction, and every row other
\* sessions can see is completed or failed, whatever successful, failed and
\* rolled-back ingestions came before
C36_NoProcessingCommitted ==
    \A r \in reports : r.status \in {"completed", "failed"}

\* after a rolled-back ingestion, a re-ingestion holds its Report as
\* processing in its open transaction while the committed row of that Report
\* is completed or failed
C36_Witness ==
    /\ faults > 0
    /\ \E w \in Workers :
         /\ worker[w].pc \in {"tx", "cloned"}
         /\ worker[w].tx.kind = "store"
         /\ worker[w].tx.report.status = "processing"
         /\ \E r \in reports :
              /\ r.id = worker[w].tx.report.id
              /\ r.status \in {"completed", "failed"}

\* this step is worker w's processing of an admitted message with a
\* supported format raising after the Report upsert
RaisedStep(w) ==
    /\ worker[w].pc \in {"tx", "cloned"}
    /\ worker[w].tx.kind \in {"store", "parser"}
    /\ hist'[worker[w].d.lin].raisedIn = hist[worker[w].d.lin].raisedIn + 1

(***************************************************************************)
(* C37 as stated: whenever the processing of an admitted message with a    *)
(* supported format raises after the Report upsert, the committed Report,  *)
(* File and Range rows are exactly those from before the message was       *)
(* processed.                                                              *)
(***************************************************************************)
C37_RaiseRollsBack ==
    [][\A w \in Workers :
         RaisedStep(w) => UNCHANGED <<reports, files, ranges>>]_vars

(***************************************************************************)
(* C37 amended: whenever the processing of an admitted message with a      *)
(* supported format raises after its trace was parsed (a store error while *)
(* a File or its Ranges are written, during materialization or at the      *)
(* commit), the committed Report, File and Range rows are exactly those    *)
(* from before the message was processed; a parser exception is the one    *)
(* raise after the upsert that can commit something: the Report row marked *)
(* failed, unless that commit fails too; the File and Range rows stay as   *)
(* they were.                                                              *)
(***************************************************************************)
C37_AtomicIngestion ==
    [][\A w \in Workers :
         RaisedStep(w) =>
           /\ UNCHANGED <<files, ranges>>
           /\ worker[w].tx.kind = "store" => UNCHANGED reports
           /\ worker[w].tx.kind = "parser" =>
                 \/ UNCHANGED reports
                 \/ reports' = WriteReport(reports, worker[w].tx.loaded,
                                           worker[w].tx.report)]_vars

\* the ingestion of ok1, whose trace has two blocks of file f, raised after
\* the materialization, and no Report or File row is visible
C37_Witness ==
    \E l \in DOMAIN hist :
      /\ hist[l].body = "ok1"
      /\ hist[l].raisedIn > 0
      /\ hist[l].matCalls > 0
      /\ reports = {}
      /\ files = {}

(***************************************************************************)
(* C38: a Report with status completed carries no error message; after a   *)
(* successful ingestion for a (repo_id, branch) whose previous ingestion   *)
(* had been marked failed, the committed Report has status completed and   *)
(* an empty (or NULL) error_message.                                       *)
(***************************************************************************)
C38_CompletedHasNoError ==
    \A r \in reports :
      r.status = "completed" => r.error_message \in {None, ""}

\* the Range rows of one File
RangesOf(rg, file_id) ==
    [x \in {y \in DOMAIN rg : y.file_id = file_id} |-> rg[x]]

\* the paths of the trace of a message
PathsInTrace(msg) ==
    LET file_coverage == ParseCoverage(DictGet(msg.coverage, "format", "goc"),
                                       DictGet(msg.coverage, "raw", <<>>))
    IN  {file_coverage[i].file_path : i \in 1..Len(file_coverage)}

\* this step commits worker w's ingestion, and File f is of the key of its
\* message with a path that is in the trace
Rewritten(w, f) ==
    /\ worker[w].pc = "cloned"
    /\ worker'[w].pc = "idle"
    /\ f.repo_id = worker[w].tx.msg.repo_id
    /\ f.branch = worker[w].tx.msg.branch
    /\ f.file_path \in PathsInTrace(worker[w].tx.msg)

(***************************************************************************)
(* C39: ingestion never deletes a Report or File row; after re-ingestion   *)
(* of (repo_id, branch), every File of that key whose path is absent from  *)
(* the new trace still exists, unchanged, with exactly the Range rows it   *)
(* had before, and the Files and Ranges of every other (repo_id, branch)   *)
(* are unchanged.                                                          *)
(***************************************************************************)
C39_NothingDeleted ==
    [][/\ \A r \in reports :
            \E q \in reports' :
              q.id = r.id /\ q.repo_id = r.repo_id /\ q.branch = r.branch
       /\ \A f \in files :
            /\ \E g \in files' :
                  /\ g.id = f.id
                  /\ g.repo_id = f.repo_id
                  /\ g.branch = f.branch
                  /\ g.file_path = f.file_path
            /\ (\A w \in Workers : ~Rewritten(w, f)) =>
                  /\ f \in files'
                  /\ RangesOf(ranges', f.id) = RangesOf(ranges, f.id)]_vars

\* branch main was re-ingested with a trace without g (ok2, commit def) after
\* g had been stored, g still has its Range rows, and branch dev has a File
\* with Range rows
C39_Witness ==
    /\ \E r \in reports, f \in files :
         /\ r.branch = "main" /\ r.commit = "def" /\ r.status = "completed"
         /\ f.repo_id = r.repo_id /\ f.branch = "main" /\ f.file_path = <<"g">>
         /\ f.updated_at < r.updated_at
         /\ RangesOf(ranges, f.id) # EmptyBag
    /\ \E f \in files :
         f.branch = "dev" /\ RangesOf(ranges, f.id) # EmptyBag

\* worker w has materialized the tree of the target commit of its message
TargetMaterialized(w) ==
    /\ worker[w].pc = "cloned"
    /\ worker[w].tx.calls[1].ok

(***************************************************************************)
(* C40: for every Report, the worktree that ingestion materializes for the *)
(* target commit lies at the cache location (repository key P(U) and       *)
(* commit) that the diff-coverage service consults for that Report.        *)
(***************************************************************************)
C40_CacheKeyAgreement ==
    \A w \in Workers :
      TargetMaterialized(w) =>
        IngestionTreeDir(worker[w].tx.msg) = DiffServiceTreeDir(worker[w].tx.report)

=============================================================================
